---------------------------- MODULE Spec2Model ----------------------------
(***************************************************************************)
(* RinseList: cleaning a contact list against a suppression list.          *)
(*                                                                         *)
(* The model follows the library pipeline of the repository:               *)
(*   email.ts      isValidEmail, normalizeEmail                            *)
(*   parser.ts     detectEmailColumn, parseFile, rowsToCSV                 *)
(*   matcher.ts    matchAndClean                                           *)
(*   audit.ts      generateAuditReport                                     *)
(*   zip.ts        createZip                                               *)
(*   worker.ts     detectSameFile, processInWorker, self.onmessage         *)
(*   processor.ts  processFiles (worker path and same-thread fallback)     *)
(*                                                                         *)
(* Text is a sequence of one-character strings, so that trimming, case     *)
(* folding, splitting and escaping are computed character by character.    *)
(* A byte buffer is the sequence of the characters its bytes encode (the   *)
(* inputs are ASCII, one byte per character).  Messages shown to the user  *)
(* are TLA+ strings.                                                       *)
(***************************************************************************)
EXTENDS Naturals, Sequences, FiniteSets

VARIABLES
    workerSupported,  \* typeof Worker !== "undefined" in this environment
    disk,             \* which set of files the caller can hand to processFiles
    keepLog,          \* whether finished computations are recorded in runLog
    runs,             \* the processFiles calls that are in flight
    runLog,           \* history of the computations of earlier runs
    probe,            \* a library function applied on its own: input and output
    page,             \* the state of the page component, when there is a page
    memo,             \* pipeline outputs computed ahead of the runs, by input
    lastIndex         \* EMAIL_REGEX.lastIndex in email.ts as loaded on the calling thread

vars == <<workerSupported, disk, keepLog, runs, runLog, probe, page, memo, lastIndex>>

-----------------------------------------------------------------------------
(* Bounds of the model.                                                    *)

\* Data lines (lines after the header line) of a contact file.
MaxContactRows == 3

\* Data lines of a suppression file.
MaxSuppressionRows == 1

\* Runs recorded in runLog under the re-run specification.
MaxRuns == 2

\* The largest number of header cells of a file handed to parseFile on its own.
MaxHeaders == 3

\* Most calls of processFiles the page has pending at a time.
MaxInFlight == 2

\* The longest removedRows handed to generateAuditReport on its own.
MaxRemoved == 2

\* The largest number of rows handed to rowsToCSV on its own.
MaxCsvRows == 2

\* The longest text handed to isValidEmail on its own.
MaxEmailLen == 6

\* The most data rows of a suppression file handed to matchAndClean on its
\* own.
MaxListRows == 2

-----------------------------------------------------------------------------
(* Characters and text.                                                    *)

UpperCase == <<"A","B","C","D","E","F","G","H","I","J","K","L","M",
               "N","O","P","Q","R","S","T","U","V","W","X","Y","Z">>

LowerCase == <<"a","b","c","d","e","f","g","h","i","j","k","l","m",
               "n","o","p","q","r","s","t","u","v","w","x","y","z">>

Digits == <<"0","1","2","3","4","5","6","7","8","9">>

\* The characters matched by \s and removed by String.prototype.trim, among
\* the characters of the model.
IsSpace(c) == c \in {" ", "\t", "\n", "\r"}

\* String.prototype.toLowerCase on one character.
LowerChar(c) ==
    IF \E k \in DOMAIN UpperCase : UpperCase[k] = c
    THEN LowerCase[CHOOSE k \in DOMAIN UpperCase : UpperCase[k] = c]
    ELSE c

toLowerCase(s) == [k \in DOMAIN s |-> LowerChar(s[k])]

\* String.prototype.trim.
trim(s) ==
    IF \A k \in DOMAIN s : IsSpace(s[k]) THEN <<>>
    ELSE LET first == CHOOSE k \in DOMAIN s :
                          /\ ~IsSpace(s[k])
                          /\ \A j \in 1..(k - 1) : IsSpace(s[j])
             last  == CHOOSE k \in DOMAIN s :
                          /\ ~IsSpace(s[k])
                          /\ \A j \in (k + 1)..Len(s) : IsSpace(s[j])
         IN  SubSeq(s, first, last)

\* String.prototype.includes for a one-character needle.
includes(s, c) == \E k \in DOMAIN s : s[k] = c

\* Whether needle occurs in s as a substring.
includesText(s, needle) ==
    \E k \in 0..(Len(s) - Len(needle)) :
        \A j \in DOMAIN needle : s[k + j] = needle[j]

RECURSIVE Join(_, _)
\* Array.prototype.join with a one-character separator.
Join(parts, sep) ==
    IF Len(parts) = 0 THEN <<>>
    ELSE IF Len(parts) = 1 THEN parts[1]
    ELSE parts[1] \o <<sep>> \o Join(Tail(parts), sep)

RECURSIVE Split(_, _)
\* String.prototype.split on a one-character separator: n separators give
\* n + 1 pieces.
Split(s, sep) ==
    IF ~includes(s, sep) THEN <<s>>
    ELSE LET k == CHOOSE i \in DOMAIN s :
                      s[i] = sep /\ \A j \in 1..(i - 1) : s[j] # sep
         IN  <<SubSeq(s, 1, k - 1)>> \o Split(SubSeq(s, k + 1, Len(s)), sep)

RECURSIVE DecimalDigits(_)
DecimalDigits(n) ==
    IF n < 10 THEN <<Digits[n + 1]>>
    ELSE DecimalDigits(n \div 10) \o <<Digits[(n % 10) + 1]>>

\* String(n) for a non-negative integer.
NumberToString(n) == DecimalDigits(n)

\* An optional value: undefined/null, or a value.
None == <<>>
Some(x) == <<x>>

-----------------------------------------------------------------------------
(* email.ts                                                                *)

\* EMAIL_REGEX = /^[^\s@]+@[^\s@]+\.[^\s@]+$/ : no whitespace anywhere, one
\* "@" with at least one character before it, and after it a "." that has at
\* least one character on each side.
\* A pattern that asks for no dot after the "@".
EMAIL_REGEX_test_NoDot(s) ==
    \E at \in DOMAIN s :
        /\ s[at] = "@"
        /\ at > 1
        /\ at < Len(s)
        /\ \A k \in DOMAIN s : k # at => (s[k] # "@" /\ ~IsSpace(s[k]))

\* Whether /^[^\s@]+@[^\s@]+\.[^\s@]+$/ matches s from its first character.
EMAIL_REGEX_test(s) ==
    \E at \in DOMAIN s :
        /\ s[at] = "@"
        /\ at > 1
        /\ \A k \in DOMAIN s : k # at => (s[k] # "@" /\ ~IsSpace(s[k]))
        /\ \E dot \in (at + 2)..(Len(s) - 1) : s[dot] = "."

\* Values that are not strings: undefined, null and a number.
JsUndefined == <<"undefined">>
JsNull      == <<"null">>
JsNumber    == <<"number">>

NonStrings == {JsUndefined, JsNull, JsNumber}

\* A pattern object with the flag g: test() then starts at lastIndex and
\* moves it.
EMAIL_REGEX_flags_Global ==
    {"g"}

\* The flags of the literal EMAIL_REGEX: none.
EMAIL_REGEX_flags ==
    {}

\* EMAIL_REGEX.test(s) on the pattern object, a constant of the module that
\* lives as long as the module: the answer and the lastIndex it leaves.
\* Without the flags g and y the match starts at 0 and lastIndex is not
\* written.  With one of them it starts at lastIndex, where the anchored
\* pattern matches only if lastIndex is 0; a match leaves lastIndex at its
\* end, a failure at 0.
RegExpTest(from, s) ==
    IF EMAIL_REGEX_flags \cap {"g", "y"} = {}
    THEN [result |-> EMAIL_REGEX_test(s), lastIndex |-> from]
    ELSE IF from = 0 /\ EMAIL_REGEX_test(s)
    THEN [result |-> TRUE, lastIndex |-> Len(s)]
    ELSE [result |-> FALSE, lastIndex |-> 0]

\* isValidEmail(email) in a module whose pattern object has the given
\* lastIndex: the value returned and the lastIndex left.
isValidEmailFrom(from, email) ==
    IF email = <<>> \/ email \in NonStrings
    THEN [result |-> FALSE, lastIndex |-> from]
    ELSE LET trimmed == trim(email)
         IN  IF Len(trimmed) = 0
             THEN [result |-> FALSE, lastIndex |-> from]
             ELSE RegExpTest(from, trimmed)

\* isValidEmail(email) in a module that was just loaded.
isValidEmail(email) == isValidEmailFrom(0, email).result

\* Faulty variant of normalizeEmail: trims but keeps the case.
normalizeEmail_KeepsCase(email) ==
    IF email = <<>> \/ email \in NonStrings THEN <<>> ELSE trim(email)

\* if (!email || typeof email !== "string") return ""; otherwise trim, then
\* lower case.
normalizeEmail(email) ==
    IF email = <<>> \/ email \in NonStrings THEN <<>>
    ELSE toLowerCase(trim(email))

-----------------------------------------------------------------------------
(* parser.ts: reading a buffer into a grid.                                *)
(*                                                                         *)
(* XLSX.read(buffer, {type: "array"}) followed by                          *)
(* XLSX.utils.sheet_to_json(sheet, {header: 1}), for a delimited-text      *)
(* buffer over the model's characters (no quotes, digits or carriage       *)
(* returns).  The reader ends a cell at every separator and line feed; an  *)
(* empty field stores no cell but still extends the sheet's range, and a   *)
(* last cell is finished only when it is not empty.  With header: 1 every  *)
(* row of the range is returned, blank rows as empty arrays; a row array   *)
(* ends at its last stored cell and has a hole (an index with no element,  *)
(* read as undefined) wherever the sheet has no cell.                      *)

\* An array index with no element.  It differs from every text.
Hole == <<"undefined">>

RECURSIVE DropTrailingHoles(_)
DropTrailingHoles(row) ==
    IF Len(row) = 0 THEN row
    ELSE IF row[Len(row)] = Hole
         THEN DropTrailingHoles(SubSeq(row, 1, Len(row) - 1))
         ELSE row

\* A last piece that is empty is not a line of the sheet's range.
DropEmptyLast(pieces) ==
    IF pieces[Len(pieces)] = <<>>
    THEN SubSeq(pieces, 1, Len(pieces) - 1)
    ELSE pieces

\* The lines of the text that lie in the sheet's range.
RangeLines(str) == DropEmptyLast(Split(str, "\n"))

\* The cells of one line: an empty field stores no cell.
CellsOfFields(fields) ==
    [c \in DOMAIN fields |-> IF fields[c] = <<>> THEN Hole ELSE fields[c]]

\* One array of cells per line.
GridOfLines(lines) ==
    [r \in DOMAIN lines |-> DropTrailingHoles(CellsOfFields(Split(lines[r], ",")))]

\* jsonData: one array of cells per line of the range.
DsvToGrid(str) == GridOfLines(RangeLines(str))

\* workbook.SheetNames of a delimited-text buffer: the one sheet it becomes.
SheetNames(buffer) == <<"Sheet1">>

-----------------------------------------------------------------------------
(* parser.ts: detectEmailColumn                                            *)

T_email      == <<"e","m","a","i","l">>
T_e_mail     == <<"e","-","m","a","i","l">>
T_address    == <<"a","d","d","r","e","s","s">>
T_subscriber == <<"s","u","b","s","c","r","i","b","e","r">>
T_contact    == <<"c","o","n","t","a","c","t">>

\* The characters the '.' of a regular expression without the s flag does
\* not match: the line terminators (of the characters of this model, line
\* feed and carriage return).
LineTerminators == {"\n", "\r"}

\* /^<pre>.?<post>$/ on lower-cased text: pre and post with at most one
\* character (not a line terminator) between them.
MatchOptAny(s, pre, post) ==
    \/ s = pre \o post
    \/ /\ Len(s) = Len(pre) + Len(post) + 1
       /\ SubSeq(s, 1, Len(pre)) = pre
       /\ s[Len(pre) + 1] \notin LineTerminators
       /\ SubSeq(s, Len(pre) + 2, Len(s)) = post

\* Whether one of EMAIL_COLUMN_PATTERNS matches the lower-cased text h.
MatchesLowered(h) ==
    \/ h = T_email
    \/ h = T_email \/ h = T_e_mail
    \/ MatchOptAny(h, T_email, T_address)
    \/ MatchOptAny(h, T_email, T_address)
    \/ MatchOptAny(h, T_e_mail, T_address)
    \/ MatchOptAny(h, T_subscriber, T_email)
    \/ MatchOptAny(h, T_contact, T_email)

\* Whether one of EMAIL_COLUMN_PATTERNS (all case-insensitive) matches.
MatchesEmailPattern(header) == MatchesLowered(toLowerCase(header))

\* pattern.test(headers[i].trim()) for some pattern, at a header that is there.
MatchesAt(headers, i) ==
    headers[i] # Hole /\ MatchesEmailPattern(trim(headers[i]))

\* headers[i].toLowerCase().includes("email"), at a header that is there.
ContainsEmailAt(headers, i) ==
    headers[i] # Hole /\ includesText(toLowerCase(headers[i]), T_email)

\* Whether detectEmailColumn throws a TypeError: the first pass reaches a hole
\* of the header array (headers[i] is undefined, headers[i].trim() throws)
\* before it reaches a header that matches a pattern.
detectEmailColumnThrows(headers) ==
    \E i \in DOMAIN headers :
        /\ headers[i] = Hole
        /\ \A j \in 1..(i - 1) : ~MatchesAt(headers, j)

\* The 1-based position of the email column, or 0 for the code's -1, when
\* detectEmailColumn returns.
detectEmailColumn(headers) ==
    IF \E i \in DOMAIN headers : MatchesAt(headers, i)
    THEN CHOOSE i \in DOMAIN headers :
             /\ MatchesAt(headers, i)
             /\ \A j \in 1..(i - 1) : ~MatchesAt(headers, j)
    ELSE IF \E i \in DOMAIN headers : ContainsEmailAt(headers, i)
    THEN CHOOSE i \in DOMAIN headers :
             /\ ContainsEmailAt(headers, i)
             /\ \A j \in 1..(i - 1) : ~ContainsEmailAt(headers, j)
    ELSE 0

-----------------------------------------------------------------------------
(* parser.ts: parseFile                                                    *)

MSG_NO_SHEET   == "The file appears to be empty or could not be read."
MSG_EMPTY      == "The file appears to be empty."
MSG_NO_HEADERS == "The file does not contain any column headers."
MSG_NO_DATA    == "The file contains headers but no data rows. Please verify the file has data."
MSG_NO_EMAIL   == "Could not find an email column in this file. Please ensure your file has a column with email addresses (commonly named 'Email', 'E-mail', or 'Email Address')."

MSG_PARSE_ERROR == "Failed to parse the file. Please ensure it's a valid CSV or XLSX file. "
MSG_TRIM_OF_UNDEFINED == "Cannot read properties of undefined (reading 'trim')"

ParseFailure(type, message) ==
    [success |-> FALSE, error |-> [type |-> type, message |-> message]]

\* Truthiness of a cell in row.some((cell) => cell): a hole is skipped and a
\* stored text cell is never empty.
Truthy(cell) == cell # Hole

\* The filter of the data rows: row && row.length > 0 && row.some(cell).
KeepsRow(row) == Len(row) > 0 /\ \E i \in DOMAIN row : Truthy(row[i])

\* String(row[i] ?? "") for the 1-based column i.
CellText(row, i) == IF i \in DOMAIN row /\ row[i] # Hole THEN row[i] ELSE <<>>

\* The property name whose assignment on a plain object stores nothing (a
\* text is not a prototype) and whose read gives Object.prototype.
T_proto == <<"_","_","p","r","o","t","o","_","_">>

\* The row record: headers.forEach((header, i) => obj[header] = ...).  forEach
\* skips the holes of the header array, a later column of the same name
\* overwrites an earlier one, and obj["__proto__"] = text stores nothing.
RowObject(headers, row) ==
    [h \in {headers[i] : i \in {k \in DOMAIN headers : headers[k] # Hole}} \ {T_proto} |->
        CellText(row, CHOOSE i \in DOMAIN headers :
                          /\ headers[i] = h
                          /\ \A j \in (i + 1)..Len(headers) : headers[j] # h)]

RECURSIVE FilterRows(_)
FilterRows(dataRows) ==
    IF Len(dataRows) = 0 THEN <<>>
    ELSE IF KeepsRow(dataRows[1])
         THEN <<dataRows[1]>> \o FilterRows(Tail(dataRows))
         ELSE FilterRows(Tail(dataRows))

\* The row records of the kept data rows.
BuildRows(headers, kept) ==
    [k \in DOMAIN kept |-> RowObject(headers, kept[k])]

\* parseFile from the detected email column on.
ParseColumns(headers, dataRows, hasMultipleSheets, emailColumnIndex) ==
    IF emailColumnIndex = 0
    THEN ParseFailure("no_email_column", MSG_NO_EMAIL)
    ELSE [success |-> TRUE,
          data |-> [headers |-> headers,
                    rows |-> BuildRows(headers, FilterRows(dataRows)),
                    emailColumnIndex |-> emailColumnIndex,
                    emailColumnName |-> headers[emailColumnIndex],
                    hasMultipleSheets |-> hasMultipleSheets]]

\* parseFile from the header row and the data rows on.
ParseTable(headers, dataRows, hasMultipleSheets) ==
    IF Len(headers) = 0
       \/ \A i \in DOMAIN headers : headers[i] = Hole \/ headers[i] = <<>>
    THEN ParseFailure("empty_file", MSG_NO_HEADERS)
    ELSE IF Len(dataRows) = 0
    THEN ParseFailure("empty_file", MSG_NO_DATA)
    ELSE IF detectEmailColumnThrows(headers)
    THEN ParseFailure("parse_error", MSG_PARSE_ERROR \o MSG_TRIM_OF_UNDEFINED)
    ELSE ParseColumns(headers, dataRows, hasMultipleSheets,
                      detectEmailColumn(headers))

\* (jsonData[0] || []).map((h) => String(h || "").trim()): map keeps the holes.
HeadersOf(first) ==
    [i \in DOMAIN first |-> IF first[i] = Hole THEN Hole ELSE trim(first[i])]

\* parseFile from jsonData on.
ParseGrid(jsonData, hasMultipleSheets) ==
    IF Len(jsonData) = 0 THEN ParseFailure("empty_file", MSG_EMPTY)
    ELSE ParseTable(HeadersOf(jsonData[1]), Tail(jsonData), hasMultipleSheets)

\* A workbook as parseFile reads it: its sheet names, and the grid that
\* sheet_to_json gives for each sheet that is there.
Workbook(sheetNames, sheets) == [SheetNames |-> sheetNames, Sheets |-> sheets]

\* XLSX.read of a delimited-text buffer: one sheet.
ReadDelimited(buffer) ==
    Workbook(SheetNames(buffer), [n \in {"Sheet1"} |-> DsvToGrid(buffer)])

\* workbook.Sheets[workbook.SheetNames[0]], undefined when it is not there.
FirstSheet(workbook) ==
    IF Len(workbook.SheetNames) > 0
       /\ workbook.SheetNames[1] \in DOMAIN workbook.Sheets
    THEN Some(workbook.Sheets[workbook.SheetNames[1]])
    ELSE None

\* parseFile from the sheet on.
ParseSheet(sheet, hasMultipleSheets) ==
    IF sheet = None THEN ParseFailure("empty_file", MSG_NO_SHEET)
    ELSE ParseGrid(sheet[1], hasMultipleSheets)

\* parseFile from the workbook on.
ParseWorkbook(workbook) ==
    ParseSheet(FirstSheet(workbook), Len(workbook.SheetNames) > 1)

\* What XLSX.read did: it returned a workbook, or it threw an Error with a
\* message.
ReadReturned(workbook) == [thrown |-> None, workbook |-> workbook]

ReadThrew(message) == [thrown |-> Some(message), workbook |-> Workbook(<<>>, <<>>)]

\* A parseFile without its catch clause: the exception of XLSX.read leaves
\* the function.
ParseRead_Rethrows(read) ==
    IF read.thrown # None
    THEN [thrown |-> read.thrown[1]]
    ELSE ParseWorkbook(read.workbook)

\* parseFile from the call of XLSX.read on: an exception of the read is
\* caught and returned as parse_error with err.message appended.
ParseRead(read) ==
    IF read.thrown # None
    THEN ParseFailure("parse_error", MSG_PARSE_ERROR \o read.thrown[1])
    ELSE ParseWorkbook(read.workbook)

\* A delimited-text buffer is always read.
parseFile(buffer, fileName) == ParseRead(ReadReturned(ReadDelimited(buffer)))

-----------------------------------------------------------------------------
(* parser.ts: rowsToCSV                                                    *)

RECURSIVE DoubleQuotes(_)
\* value.replace(/"/g, '""')
DoubleQuotes(value) ==
    IF Len(value) = 0 THEN <<>>
    ELSE (IF value[1] = "\"" THEN <<"\"", "\"">> ELSE <<value[1]>>)
         \o DoubleQuotes(Tail(value))

escapeCSV(value) ==
    IF includes(value, ",") \/ includes(value, "\"") \/ includes(value, "\n")
    THEN <<"\"">> \o DoubleQuotes(value) \o <<"\"">>
    ELSE value

\* row[h] || "" : the value under h, the empty text when the record has none.
\* The names every plain object inherits from Object.prototype: the read
\* row[h] of a row without an own property h gives the inherited function.
InheritedNames ==
    {<<"c","o","n","s","t","r","u","c","t","o","r">>,
     <<"t","o","S","t","r","i","n","g">>,
     <<"t","o","L","o","c","a","l","e","S","t","r","i","n","g">>,
     <<"v","a","l","u","e","O","f">>,
     <<"h","a","s","O","w","n","P","r","o","p","e","r","t","y">>,
     <<"i","s","P","r","o","t","o","t","y","p","e","O","f">>,
     <<"p","r","o","p","e","r","t","y","I","s","E","n","u","m","e","r","a","b","l","e">>,
     <<"_","_","d","e","f","i","n","e","G","e","t","t","e","r","_","_">>,
     <<"_","_","d","e","f","i","n","e","S","e","t","t","e","r","_","_">>,
     <<"_","_","l","o","o","k","u","p","G","e","t","t","e","r","_","_">>,
     <<"_","_","l","o","o","k","u","p","S","e","t","t","e","r","_","_">>}

\* Whether the read row[h] gives a value that is not a text: Object.prototype
\* for __proto__, an inherited function for an inherited name the row does not
\* hold itself.
ReadsInherited(row, h) ==
    h = T_proto \/ (h \in InheritedNames /\ h \notin DOMAIN row)

\* row[h] || "" where row[h] is a text or undefined.
FieldOf(row, h) == IF h \in DOMAIN row THEN row[h] ELSE <<>>

MSG_INCLUDES_NOT_FUNCTION == "value.includes is not a function"

\* Whether rowsToCSV throws a TypeError: the read row[h] gives an object or a
\* function, which is truthy and has no includes method.
rowsToCSVThrows(headers, rows) ==
    \E k \in DOMAIN rows : \E i \in DOMAIN headers :
        headers[i] # Hole /\ ReadsInherited(rows[k], headers[i])

\* The text rowsToCSV returns when it returns.  headers.map skips the holes of
\* the header array and join writes nothing for them.
rowsToCSV(headers, rows) ==
    LET headerLine == Join([i \in DOMAIN headers |->
                               IF headers[i] = Hole THEN <<>>
                               ELSE escapeCSV(headers[i])], ",")
        dataLines  == [k \in DOMAIN rows |->
                          Join([i \in DOMAIN headers |->
                                   IF headers[i] = Hole THEN <<>>
                                   ELSE escapeCSV(FieldOf(rows[k], headers[i]))], ",")]
    IN  Join(<<headerLine>> \o dataLines, "\n")

-----------------------------------------------------------------------------
(* matcher.ts: matchAndClean                                               *)

\* Faulty variant of the suppression set: the cells are added as they are,
\* without normalizeEmail.
BuildSuppressionSet_Raw(suppressionList) ==
    { suppressionList.rows[k][suppressionList.emailColumnName] :
        k \in { j \in DOMAIN suppressionList.rows :
                  suppressionList.rows[j][suppressionList.emailColumnName] # <<>> } }

\* The suppression set: the normalized email of every suppression row whose
\* email cell is a non-empty string (if (email) ...).
BuildSuppressionSet(suppressionList) ==
    { normalizeEmail(suppressionList.rows[k][suppressionList.emailColumnName]) :
        k \in { j \in DOMAIN suppressionList.rows :
                  suppressionList.rows[j][suppressionList.emailColumnName] # <<>> } }

\* The accumulators before the loop, and the lastIndex of EMAIL_REGEX as the
\* call finds it.
MatchStart(from) ==
    [cleanedRows |-> <<>>, removedRows |-> <<>>,
     suppressedCount |-> 0, invalidCount |-> 0, lastIndex |-> from]

\* Faulty variant of the loop body: the format check comes before the
\* suppression check.
MatchStep_InvalidFirst(acc, contactList, suppressionSet, options, i) ==
    LET row == contactList.rows[i + 1]
        email == row[contactList.emailColumnName]
    IN  IF options.removeInvalidEmails /\ ~isValidEmail(email)
        THEN [acc EXCEPT
                !.removedRows = Append(@, [originalRowNumber |-> i + 2,
                                           email |-> email,
                                           reason |-> "invalid",
                                           rowData |-> row]),
                !.invalidCount = @ + 1]
        ELSE IF normalizeEmail(email) \in suppressionSet
        THEN [acc EXCEPT
                !.removedRows = Append(@, [originalRowNumber |-> i + 2,
                                           email |-> email,
                                           reason |-> "suppressed",
                                           rowData |-> row]),
                !.suppressedCount = @ + 1]
        ELSE [acc EXCEPT !.cleanedRows = Append(@, row)]

\* Faulty variant of the loop body: malformed emails are removed whatever
\* options.removeInvalidEmails says.
MatchStep_IgnoresOption(acc, contactList, suppressionSet, options, i) ==
    LET row == contactList.rows[i + 1]
        email == row[contactList.emailColumnName]
    IN  IF normalizeEmail(email) \in suppressionSet
        THEN [acc EXCEPT
                !.removedRows = Append(@, [originalRowNumber |-> i + 2,
                                           email |-> email,
                                           reason |-> "suppressed",
                                           rowData |-> row]),
                !.suppressedCount = @ + 1]
        ELSE IF ~isValidEmail(email)
        THEN [acc EXCEPT
                !.removedRows = Append(@, [originalRowNumber |-> i + 2,
                                           email |-> email,
                                           reason |-> "invalid",
                                           rowData |-> row]),
                !.invalidCount = @ + 1]
        ELSE [acc EXCEPT !.cleanedRows = Append(@, row)]

\* Faulty variant of the loop body: a removed row records the normalized
\* email instead of the cell's text.
MatchStep_StoresNormalized(acc, contactList, suppressionSet, options, i) ==
    LET row == contactList.rows[i + 1]
        email == row[contactList.emailColumnName]
    IN  IF normalizeEmail(email) \in suppressionSet
        THEN [acc EXCEPT
                !.removedRows = Append(@, [originalRowNumber |-> i + 2,
                                           email |-> normalizeEmail(email),
                                           reason |-> "suppressed",
                                           rowData |-> row]),
                !.suppressedCount = @ + 1]
        ELSE IF options.removeInvalidEmails /\ ~isValidEmail(email)
        THEN [acc EXCEPT
                !.removedRows = Append(@, [originalRowNumber |-> i + 2,
                                           email |-> normalizeEmail(email),
                                           reason |-> "invalid",
                                           rowData |-> row]),
                !.invalidCount = @ + 1]
        ELSE [acc EXCEPT !.cleanedRows = Append(@, row)]

\* Faulty variant of the loop body: removed rows are put at the front of
\* removedRows.
MatchStep_Prepends(acc, contactList, suppressionSet, options, i) ==
    LET row == contactList.rows[i + 1]
        email == row[contactList.emailColumnName]
    IN  IF normalizeEmail(email) \in suppressionSet
        THEN [acc EXCEPT
                !.removedRows = <<[originalRowNumber |-> i + 2,
                                   email |-> email,
                                   reason |-> "suppressed",
                                   rowData |-> row]>> \o @,
                !.suppressedCount = @ + 1]
        ELSE IF options.removeInvalidEmails /\ ~isValidEmail(email)
        THEN [acc EXCEPT
                !.removedRows = <<[originalRowNumber |-> i + 2,
                                   email |-> email,
                                   reason |-> "invalid",
                                   rowData |-> row]>> \o @,
                !.invalidCount = @ + 1]
        ELSE [acc EXCEPT !.cleanedRows = Append(@, row)]

\* One iteration of the loop, for the row at 0-based index i.
MatchStep(acc, contactList, suppressionSet, options, i) ==
    LET row == contactList.rows[i + 1]
        email == row[contactList.emailColumnName]
        normalizedEmail == normalizeEmail(email)
        originalRowNumber == i + 2
        \* options.removeInvalidEmails && !isValidEmail(email): isValidEmail is
        \* called only with the option on
        checked == IF options.removeInvalidEmails
                   THEN isValidEmailFrom(acc.lastIndex, email)
                   ELSE [result |-> TRUE, lastIndex |-> acc.lastIndex]
    IN  IF normalizedEmail \in suppressionSet
        THEN [acc EXCEPT
                !.removedRows = Append(@, [originalRowNumber |-> originalRowNumber,
                                           email |-> email,
                                           reason |-> "suppressed",
                                           rowData |-> row]),
                !.suppressedCount = @ + 1]
        ELSE IF options.removeInvalidEmails /\ ~checked.result
        THEN [acc EXCEPT
                !.removedRows = Append(@, [originalRowNumber |-> originalRowNumber,
                                           email |-> email,
                                           reason |-> "invalid",
                                           rowData |-> row]),
                !.invalidCount = @ + 1,
                !.lastIndex = checked.lastIndex]
        ELSE [acc EXCEPT !.cleanedRows = Append(@, row),
                         !.lastIndex = checked.lastIndex]

RECURSIVE MatchLoop(_, _, _, _, _)
\* for (let i = 0; i < contactList.rows.length; i++) { ... }
MatchLoop(acc, contactList, suppressionSet, options, i) ==
    IF i >= Len(contactList.rows) THEN acc
    ELSE MatchLoop(MatchStep(acc, contactList, suppressionSet, options, i),
                   contactList, suppressionSet, options, i + 1)

\* Faulty variant of the returned record: cleanedCount counts every contact
\* row.
MatchReturn_CountsEveryRow(acc, contactList) ==
    [cleanedRows |-> acc.cleanedRows,
     removedRows |-> acc.removedRows,
     stats |-> [totalRows |-> Len(contactList.rows),
                cleanedCount |-> Len(contactList.rows),
                suppressedCount |-> acc.suppressedCount,
                invalidCount |-> acc.invalidCount]]

\* The returned MatchResult.
MatchReturn(acc, contactList) ==
    [cleanedRows |-> acc.cleanedRows,
     removedRows |-> acc.removedRows,
     stats |-> [totalRows |-> Len(contactList.rows),
                cleanedCount |-> Len(acc.cleanedRows),
                suppressedCount |-> acc.suppressedCount,
                invalidCount |-> acc.invalidCount]]

\* matchAndClean in a module whose EMAIL_REGEX has the given lastIndex: the
\* MatchResult returned and the lastIndex left.
matchAndCleanFrom(from, contactList, suppressionList, options) ==
    LET acc == MatchLoop(MatchStart(from), contactList,
                         BuildSuppressionSet(suppressionList), options, 0)
    IN  [result |-> MatchReturn(acc, contactList), lastIndex |-> acc.lastIndex]

\* matchAndClean in a module that was just loaded.
matchAndClean(contactList, suppressionList, options) ==
    matchAndCleanFrom(0, contactList, suppressionList, options).result

-----------------------------------------------------------------------------
(* audit.ts: generateAuditReport                                           *)

T_OriginalRow   == <<"O","r","i","g","i","n","a","l"," ","R","o","w">>
T_Email         == <<"E","m","a","i","l">>
T_RemovalReason == <<"R","e","m","o","v","a","l"," ","R","e","a","s","o","n">>
T_Suppressed    == <<"S","u","p","p","r","e","s","s","e","d">>
T_InvalidFormat == <<"I","n","v","a","l","i","d"," ","F","o","r","m","a","t">>

AuditHeaders == <<T_OriginalRow, T_Email, T_RemovalReason>>

\* An AuditRow with the two labels exchanged.
AuditRow_LabelsSwapped(removed) ==
    [h \in {T_OriginalRow, T_Email, T_RemovalReason} |->
        IF h = T_OriginalRow THEN NumberToString(removed.originalRowNumber)
        ELSE IF h = T_Email THEN removed.email
        ELSE IF removed.reason = "suppressed" THEN T_InvalidFormat
        ELSE T_Suppressed]

\* One record of the report, keyed by the report's headers.
AuditRow(removed) ==
    [h \in {T_OriginalRow, T_Email, T_RemovalReason} |->
        IF h = T_OriginalRow THEN NumberToString(removed.originalRowNumber)
        ELSE IF h = T_Email THEN removed.email
        ELSE IF removed.reason = "suppressed" THEN T_Suppressed
        ELSE T_InvalidFormat]

generateAuditReport(removedRows) ==
    rowsToCSV(AuditHeaders, [k \in DOMAIN removedRows |-> AuditRow(removedRows[k])])

-----------------------------------------------------------------------------
(* zip.ts: createZip; worker.ts / processor.ts: csvToBlob                  *)

\* A createZip that writes the report entry whatever it is given.
createZip_AlwaysReport(cleanedListCSV, auditReportCSV) ==
    [entries |->
        [n \in {"cleaned-list.csv", "rinse-report.csv"} |->
            IF n = "cleaned-list.csv" THEN cleanedListCSV
            ELSE IF auditReportCSV # None THEN auditReportCSV[1] ELSE <<>>]]

\* The archive as its entries: entry name -> content.  The audit entry is
\* added only for a defined, non-empty auditReportCSV.
createZip(cleanedListCSV, auditReportCSV) ==
    [entries |->
        IF auditReportCSV # None /\ auditReportCSV[1] # <<>>
        THEN [n \in {"cleaned-list.csv", "rinse-report.csv"} |->
                 IF n = "cleaned-list.csv" THEN cleanedListCSV
                 ELSE auditReportCSV[1]]
        ELSE [n \in {"cleaned-list.csv"} |-> cleanedListCSV]]

csvToBlob(csv) == [type |-> "text/csv;charset=utf-8", text |-> csv]

-----------------------------------------------------------------------------
(* worker.ts: detectSameFile, processInWorker                              *)

MSG_SAME_FILE == "The Contact List and Suppression List appear to be the same file. Please upload your Klaviyo suppression list as the Suppression List."

\* Faulty variant of detectSameFile: compares the byte lengths only.
detectSameFile_LengthOnly(contactBuffer, suppressionBuffer) ==
    Len(contactBuffer) = Len(suppressionBuffer)

detectSameFile(contactBuffer, suppressionBuffer) ==
    IF Len(contactBuffer) # Len(suppressionBuffer) THEN FALSE
    ELSE \A i \in DOMAIN contactBuffer : contactBuffer[i] = suppressionBuffer[i]

\* The local variables of one pipeline execution, each None until assigned,
\* and the library calls made so far, in order.
EmptyFrame ==
    [calls |-> <<>>, contactResult |-> None, suppressionResult |-> None,
     matchResult |-> None, cleanedCSV |-> None, auditCSV |-> None]

\* processInWorker: the archive and the returned payload, with the frame.
WorkerBundle(contactResult, suppressionResult, calls, matchResult, cleanedCSV, auditCSV) ==
    [frame |->
        [calls |-> calls \o <<"matchAndClean", "rowsToCSV">>
                    \o (IF auditCSV # None THEN <<"generateAuditReport">> ELSE <<>>)
                    \o <<"createZip">>,
         contactResult |-> Some(contactResult),
         suppressionResult |-> Some(suppressionResult),
         matchResult |-> Some(matchResult),
         cleanedCSV |-> Some(cleanedCSV),
         auditCSV |-> auditCSV],
     payload |->
        [zipBlob |-> createZip(cleanedCSV, auditCSV),
         cleanedListBlob |-> csvToBlob(cleanedCSV),
         auditReportBlob |-> IF auditCSV # None
                             THEN Some(csvToBlob(auditCSV[1]))
                             ELSE None,
         stats |-> matchResult.stats,
         contactListHasMultipleSheets |-> contactResult.data.hasMultipleSheets,
         suppressionListHasMultipleSheets |-> suppressionResult.data.hasMultipleSheets],
     thrown |-> None]

\* processInWorker: the cleaned CSV, and the audit CSV when it is asked for and a
\* row was removed.
WorkerOutputs(contactResult, suppressionResult, options, calls, matchResult) ==
    IF rowsToCSVThrows(contactResult.data.headers, matchResult.cleanedRows)
    THEN [frame |-> [calls |-> calls \o <<"matchAndClean", "rowsToCSV">>,
                     contactResult |-> Some(contactResult),
                     suppressionResult |-> Some(suppressionResult),
                     matchResult |-> Some(matchResult),
                     cleanedCSV |-> None,
                     auditCSV |-> None],
          payload |-> None,
          thrown |-> Some(MSG_INCLUDES_NOT_FUNCTION)]
    ELSE WorkerBundle(contactResult, suppressionResult, calls, matchResult,
             rowsToCSV(contactResult.data.headers, matchResult.cleanedRows),
             IF options.generateAuditReport /\ Len(matchResult.removedRows) > 0
             THEN Some(generateAuditReport(matchResult.removedRows))
             ELSE None)

\* processInWorker after both files parsed: matching, then the outputs.
\* matchAndClean is the one of the modules loaded by the Worker that
\* processFiles creates for this call.
WorkerPipeline(contactResult, suppressionResult, options, calls) ==
    WorkerOutputs(contactResult, suppressionResult, options, calls,
        matchAndClean(contactResult.data, suppressionResult.data,
                      [removeInvalidEmails |-> options.removeInvalidEmails]))

WorkerError(message) == [success |-> FALSE, error |-> message]

WorkerOutput(payload) == [success |-> TRUE, payload |-> payload]

\* return { success: true, ... } of processInWorker, or the exception that
\* leaves it: processInWorker has no try block.
WorkerReturn(out) ==
    IF out.thrown # None
    THEN [result |-> None, frame |-> out.frame, thrown |-> out.thrown]
    ELSE [result |-> WorkerOutput(out.payload), frame |-> out.frame,
          thrown |-> None]

\* processInWorker once the suppression file is parsed.
WorkerAfterSuppression(input, contactResult, suppressionResult) ==
    IF ~suppressionResult.success
    THEN [result |-> WorkerError("Suppression List: "
                         \o suppressionResult.error.message),
          frame |-> [EmptyFrame EXCEPT
                        !.calls = <<"parseFile(contact)", "parseFile(suppression)">>,
                        !.contactResult = Some(contactResult),
                        !.suppressionResult = Some(suppressionResult)],
          thrown |-> None]
    ELSE WorkerReturn(WorkerPipeline(contactResult, suppressionResult, input.options,
                          <<"parseFile(contact)", "parseFile(suppression)">>))

\* Faulty variant of processInWorker: the suppression file is parsed before
\* the contact file's failure is reported.
WorkerAfterContact_ParsesBoth(input, contactResult) ==
    IF ~contactResult.success
    THEN [result |-> WorkerError("Contact List: " \o contactResult.error.message),
          frame |-> [EmptyFrame EXCEPT
                        !.calls = <<"parseFile(contact)", "parseFile(suppression)">>,
                        !.contactResult = Some(contactResult),
                        !.suppressionResult =
                            Some(parseFile(input.suppressionBuffer,
                                           input.suppressionFileName))],
          thrown |-> None]
    ELSE WorkerAfterSuppression(input, contactResult,
             parseFile(input.suppressionBuffer, input.suppressionFileName))

\* processInWorker once the contact file is parsed.
WorkerAfterContact(input, contactResult) ==
    IF ~contactResult.success
    THEN [result |-> WorkerError("Contact List: " \o contactResult.error.message),
          frame |-> [EmptyFrame EXCEPT !.calls = <<"parseFile(contact)">>,
                                       !.contactResult = Some(contactResult)],
          thrown |-> None]
    ELSE WorkerAfterSuppression(input, contactResult,
             parseFile(input.suppressionBuffer, input.suppressionFileName))

\* processInWorker(input): the WorkerResult and the frame it ran in.
processInWorker(input) ==
    IF detectSameFile(input.contactBuffer, input.suppressionBuffer)
    THEN [result |-> WorkerError(MSG_SAME_FILE), frame |-> EmptyFrame,
          thrown |-> None]
    ELSE WorkerAfterContact(input,
             parseFile(input.contactBuffer, input.contactFileName))

-----------------------------------------------------------------------------
(* processor.ts: processFiles                                              *)

Fulfilled(value) == [status |-> "fulfilled", value |-> value]

Rejected(message) == [status |-> "rejected", reason |-> message]

\* Faulty variant of worker.onmessage: it resolves with whatever arrives.
SettleFromMessage_AlwaysResolves(result) ==
    [status |-> "fulfilled", value |-> result]

\* worker.onmessage on the main thread: resolve with the payload of a
\* successful result, reject with new Error(result.error) otherwise.
SettleFromMessage(result) ==
    IF result.success THEN Fulfilled(result.payload) ELSE Rejected(result.error)

\* The same-file test of the fallback path, written inline in processFiles.
FallbackSameFile(contactBuffer, suppressionBuffer) ==
    /\ Len(contactBuffer) = Len(suppressionBuffer)
    /\ ~\E i \in DOMAIN contactBuffer : contactBuffer[i] # suppressionBuffer[i]

\* return { zipBlob, ... } of the fallback, from the locals it holds after
\* await createZip.
FallbackResult(frame) ==
    [zipBlob |-> createZip(frame.cleanedCSV[1], frame.auditCSV),
     cleanedListBlob |-> csvToBlob(frame.cleanedCSV[1]),
     auditReportBlob |-> IF frame.auditCSV # None
                         THEN Some(csvToBlob(frame.auditCSV[1]))
                         ELSE None,
     stats |-> frame.matchResult[1].stats,
     contactListHasMultipleSheets |-> frame.contactResult[1].data.hasMultipleSheets,
     suppressionListHasMultipleSheets |->
         frame.suppressionResult[1].data.hasMultipleSheets]

\* the fallback of processFiles: the archive and the returned payload, with the frame.
FallbackBundle(contactResult, suppressionResult, calls, matchResult, cleanedCSV, auditCSV) ==
    LET frame ==
            [calls |-> calls \o <<"matchAndClean", "rowsToCSV">>
                        \o (IF auditCSV # None THEN <<"generateAuditReport">> ELSE <<>>)
                        \o <<"createZip">>,
             contactResult |-> Some(contactResult),
             suppressionResult |-> Some(suppressionResult),
             matchResult |-> Some(matchResult),
             cleanedCSV |-> Some(cleanedCSV),
             auditCSV |-> auditCSV]
    IN  [frame |-> frame, payload |-> FallbackResult(frame), thrown |-> None]

\* the fallback of processFiles: the cleaned CSV, and the audit CSV when it is asked for and a
\* row was removed.
FallbackOutputs(contactResult, suppressionResult, options, calls, matchResult) ==
    IF rowsToCSVThrows(contactResult.data.headers, matchResult.cleanedRows)
    THEN [frame |-> [calls |-> calls \o <<"matchAndClean", "rowsToCSV">>,
                     contactResult |-> Some(contactResult),
                     suppressionResult |-> Some(suppressionResult),
                     matchResult |-> Some(matchResult),
                     cleanedCSV |-> None,
                     auditCSV |-> None],
          payload |-> None,
          thrown |-> Some(MSG_INCLUDES_NOT_FUNCTION)]
    ELSE FallbackBundle(contactResult, suppressionResult, calls, matchResult,
             rowsToCSV(contactResult.data.headers, matchResult.cleanedRows),
             IF options.generateAuditReport /\ Len(matchResult.removedRows) > 0
             THEN Some(generateAuditReport(matchResult.removedRows))
             ELSE None)

\* the fallback of processFiles after both files parsed: matching, then the
\* outputs.  matchAndClean is the one of the module loaded on the calling
\* thread, which stays loaded from call to call.
FallbackPipeline(contactResult, suppressionResult, options, calls) ==
    FallbackOutputs(contactResult, suppressionResult, options, calls,
        matchAndCleanFrom(lastIndex, contactResult.data, suppressionResult.data,
                          [removeInvalidEmails |-> options.removeInvalidEmails]).result)

\* return { zipBlob, ... } of the fallback; an exception rejects the promise
\* of the async function processFiles.
FallbackReturn(out) ==
    IF out.thrown # None
    THEN [promise |-> Rejected(out.thrown[1]), frame |-> out.frame]
    ELSE [promise |-> Fulfilled(out.payload), frame |-> out.frame]

\* The fallback once the suppression file is parsed.
FallbackAfterSuppression(options, contactResult, suppressionResult) ==
    IF ~suppressionResult.success
    THEN [promise |-> Rejected("Suppression List: "
                          \o suppressionResult.error.message),
          frame |-> [EmptyFrame EXCEPT
                        !.calls = <<"parseFile(contact)", "parseFile(suppression)">>,
                        !.contactResult = Some(contactResult),
                        !.suppressionResult = Some(suppressionResult)]]
    ELSE FallbackReturn(FallbackPipeline(contactResult, suppressionResult, options,
                            <<"parseFile(contact)", "parseFile(suppression)">>))

\* The fallback once the contact file is parsed.
FallbackAfterContact(suppressionBuffer, suppressionName, options, contactResult) ==
    IF ~contactResult.success
    THEN [promise |-> Rejected("Contact List: " \o contactResult.error.message),
          frame |-> [EmptyFrame EXCEPT !.calls = <<"parseFile(contact)">>,
                                       !.contactResult = Some(contactResult)]]
    ELSE FallbackAfterSuppression(options, contactResult,
             parseFile(suppressionBuffer, suppressionName))

\* The fallback path of processFiles: how its promise settles, and the frame.
FallbackProcess(contactBuffer, contactName, suppressionBuffer, suppressionName, options) ==
    IF FallbackSameFile(contactBuffer, suppressionBuffer)
    THEN [promise |-> Rejected(MSG_SAME_FILE), frame |-> EmptyFrame]
    ELSE FallbackAfterContact(suppressionBuffer, suppressionName, options,
             parseFile(contactBuffer, contactName))

-----------------------------------------------------------------------------
(* The files of the model.                                                 *)

RECURSIVE SeqsUpTo(_, _)
\* The sequences over S of length at most n.
SeqsUpTo(S, n) ==
    IF n = 0 THEN {<<>>}
    ELSE LET shorter == SeqsUpTo(S, n - 1)
         IN  shorter \cup {Append(q, x) : q \in shorter, x \in S}

\* The buffer of a delimited-text file with the given lines.
CsvBuffer(lines) == Join(lines, "\n")

File(name, bytes) == [name |-> name, bytes |-> bytes]

L_valid      == <<"a","@","b",".","c">>
L_validMixed == <<" ","A","@","b",".","c">>
L_invalid    == <<"B">>
L_invalidLow == <<"b">>
L_blank      == <<>>
L_space      == <<" ">>

\* Data lines of contact files: a valid address in mixed case behind a space,
\* a malformed address in upper case, a cell of one space, and a blank line.
ContactLines == {L_validMixed, L_invalid, L_space, L_blank}

\* Data lines of suppression files.
SuppressionLines == {L_valid, L_invalidLow, L_space}

\* A file whose header names no email column.
NoEmailBuffer == CsvBuffer(<<<<"n">>, <<"x">>>>)

ContactBuffers ==
    {CsvBuffer(<<T_email>> \o q) : q \in SeqsUpTo(ContactLines, MaxContactRows)}
    \cup {NoEmailBuffer}

SuppressionBuffers ==
    {CsvBuffer(<<T_email>> \o q) : q \in SeqsUpTo(SuppressionLines, MaxSuppressionRows)}
    \cup {NoEmailBuffer}

\* The files of the main specification.  A suppression file can carry the
\* same name as the contact file or another one.
MainDisk ==
    [contact |-> {File("contacts.csv", b) : b \in ContactBuffers},
     suppression |-> {File("suppression.csv", b) : b \in SuppressionBuffers}
                     \cup {File("contacts.csv", CsvBuffer(<<T_email, L_invalid>>))}]

\* The files of the re-run specification.
RerunDisk ==
    [contact |-> {File("contacts.csv", CsvBuffer(<<T_email, L_validMixed, L_invalid>>)),
                  File("contacts.csv", NoEmailBuffer)},
     suppression |-> {File("suppression.csv", CsvBuffer(<<T_email, L_valid>>)),
                      File("suppression.csv", CsvBuffer(<<T_email, L_invalidLow>>))}]

Options == [generateAuditReport : BOOLEAN, removeInvalidEmails : BOOLEAN]

-----------------------------------------------------------------------------
(* The files handed to parseFile on its own.                               *)

H_EMail    == <<"E","-","M","a","i","l">>
H_xemail   == <<"x","e","m","a","i","l">>
H_n        == <<"n">>

\* Header cells: a canonical name in mixed case, a name that only contains
\* "email", another name, an empty field and a field of one space.
HeaderCells == {H_EMail, H_xemail, H_n, <<>>, <<" ">>}

\* The six canonical names and two names next to them, each a header row of
\* one cell.
NamedHeaderRows ==
    {<<T_email>>, <<T_e_mail>>,
     <<T_email \o <<" ">> \o T_address>>, <<T_e_mail \o <<" ">> \o T_address>>,
     <<T_subscriber \o <<" ">> \o T_email>>, <<T_contact \o <<" ">> \o T_email>>,
     <<T_email \o <<"s">>>>, <<<<"m","a","i","l">>>>}

HeaderRows == (SeqsUpTo(HeaderCells, MaxHeaders) \ {<<>>}) \cup NamedHeaderRows

\* The lines after the header line: none, one cell, three valid addresses,
\* or a valid address followed by two other cells.
ProbeDataLines ==
    {<<>>, <<<<"q">>>>, <<Join(<<L_valid, L_valid, L_valid>>, ",")>>,
     <<Join(<<L_valid, <<"x">>, <<"y">>>>, ",")>>}

ProbeBuffers ==
    {CsvBuffer(<<Join(h, ",")>> \o d) : h \in HeaderRows, d \in ProbeDataLines}
        \ {<<>>}

\* Workbooks that no delimited text gives: one without its first sheet, one
\* whose sheet has no row, one with two sheets.
OtherWorkbooks ==
    {Workbook(<<"Sheet1">>, <<>>),
     Workbook(<<"Sheet1">>, [n \in {"Sheet1"} |-> <<>>]),
     Workbook(<<"Sheet1", "Sheet2">>,
              [n \in {"Sheet1", "Sheet2"} |-> <<<<T_email>>, <<L_valid>>>>])}

\* A suppression file that parses.
GoodSuppression == CsvBuffer(<<T_email, L_invalidLow>>)

\* The files of the specification with faults: a contact file of which one
\* row stays and one goes, one with a column named __proto__, one with a
\* header line only; a suppression file that parses, one without an email
\* column, and a copy of the first contact file under another name.
FaultDisk ==
    [contact |-> {File("contacts.csv", CsvBuffer(<<T_email, L_validMixed, L_invalid>>)),
                  File("contacts.csv",
                       CsvBuffer(<<Join(<<T_email, T_proto>>, ","),
                                   Join(<<L_validMixed, H_n>>, ",")>>)),
                  File("contacts.csv", T_email)},
     suppression |-> {File("suppression.csv", GoodSuppression),
                      File("suppression.csv", NoEmailBuffer),
                      File("suppression.csv",
                           CsvBuffer(<<T_email, L_validMixed, L_invalid>>))}]

\* The files a visitor of the page has at hand; any of them can be dropped on
\* either upload zone.
PageFiles ==
    {File("contacts.csv", CsvBuffer(<<T_email, L_validMixed, L_invalid>>)),
     File("suppression.csv", GoodSuppression),
     File("contacts.csv", T_email)}

PageDisk == [contact |-> PageFiles, suppression |-> PageFiles]

\* The files of a named set.
Files(d) ==
    CASE d = "main" -> MainDisk
      [] d = "rerun" -> RerunDisk
      [] d = "faults" -> FaultDisk
      [] d = "page" -> PageDisk

-----------------------------------------------------------------------------
(* The state machine: calls of processFiles and the steps of each run.     *)

Init ==
    /\ workerSupported \in BOOLEAN
    /\ disk = "main"
    /\ keepLog = FALSE
    /\ runs = <<>>
    /\ runLog = <<>>
    /\ probe = None
    /\ page = None
    /\ lastIndex = 0
    /\ memo = <<>>

InitRerun ==
    /\ workerSupported \in BOOLEAN
    /\ disk = "rerun"
    /\ keepLog = TRUE
    /\ runs = <<>>
    /\ runLog = <<>>
    /\ probe = None
    /\ page = None
    /\ lastIndex = 0
    /\ memo = <<>>

\* What a finished computation leaves in the history.
LogEntry(run, frame, promise) ==
    [contactBuffer |-> run.contactFile.bytes,
     suppressionBuffer |-> run.suppressionFile.bytes,
     options |-> run.options,
     matchResult |-> frame.matchResult,
     cleanedCSV |-> frame.cleanedCSV,
     auditCSV |-> frame.auditCSV,
     promise |-> promise]

\* A call of processFiles that has just started.
NewRun(contactFile, suppressionFile, options) ==
    [pc |-> "reading",
     contactFile |-> contactFile,
     suppressionFile |-> suppressionFile,
     options |-> options,
     frame |-> EmptyFrame,
     reply |-> None,
     promise |-> None]

\* processFiles(contactListFile, suppressionListFile, options) is called: both
\* files start to be read.
CallProcessFiles(contactFile, suppressionFile, options) ==
    /\ runs' = Append(runs, NewRun(contactFile, suppressionFile, options))
    /\ UNCHANGED <<workerSupported, disk, keepLog, runLog, probe, page, memo, lastIndex>>

\* The files and options of the calls made while another call is in flight.
OverlapBuffers ==
    [contact |-> {CsvBuffer(<<T_email, L_validMixed, L_invalid>>),
                  NoEmailBuffer, T_email},
     suppression |-> {CsvBuffer(<<T_email, L_invalidLow>>)},
     options |-> {[generateAuditReport |-> TRUE, removeInvalidEmails |-> TRUE]}]

\* Whether a call is one of those made next to other calls.
Overlaps(contactFile, suppressionFile, options) ==
    /\ contactFile.bytes \in OverlapBuffers.contact
    /\ suppressionFile.bytes \in OverlapBuffers.suppression
    /\ options \in OverlapBuffers.options

\* The files of a named set that calls next to other calls hand over.
OverlapFiles(d) ==
    [contact |-> {f \in Files(d).contact : f.bytes \in OverlapBuffers.contact},
     suppression |-> {f \in Files(d).suppression :
                         f.bytes \in OverlapBuffers.suppression}]

\* A caller with no call in flight hands over any two files and any options.
FirstCall ==
    /\ Len(runs) = 0
    /\ keepLog => Len(runLog) < MaxRuns
    /\ \E c \in Files(disk).contact, s \in Files(disk).suppression, o \in Options :
           CallProcessFiles(c, s, o)

\* A caller calls again while calls are in flight, as long as there are fewer
\* than MaxInFlight of them: processFiles keeps nothing between calls and
\* nothing makes a caller await one call before the next.
OverlappingCall ==
    /\ Len(runs) > 0
    /\ Len(runs) < MaxInFlight
    /\ keepLog => Len(runLog) + Len(runs) < MaxRuns
    /\ \A i \in DOMAIN runs :
          Overlaps(runs[i].contactFile, runs[i].suppressionFile, runs[i].options)
    /\ \E c \in OverlapFiles(disk).contact, s \in OverlapFiles(disk).suppression,
          o \in OverlapBuffers.options :
           CallProcessFiles(c, s, o)

\* The caller of processFiles.
Caller == FirstCall \/ OverlappingCall

\* reader.onerror of readFileAsArrayBuffer: one of the two files cannot be
\* read (it was removed or changed after it was chosen); Promise.all rejects,
\* no worker is made and nothing is parsed.
ReadFails(i) ==
    /\ runs[i].pc = "reading"
    /\ runs' = [runs EXCEPT ![i].pc = "settled",
                            ![i].promise = Some(Rejected("Failed to read file"))]
    /\ UNCHANGED <<workerSupported, disk, keepLog, runLog, probe, page, memo, lastIndex>>

\* Both reads finished and Worker exists: the input is posted to a new worker.
PostToWorker(i) ==
    /\ runs[i].pc = "reading"
    /\ workerSupported
    /\ runs' = [runs EXCEPT ![i].pc = "posted"]
    /\ UNCHANGED <<workerSupported, disk, keepLog, runLog, probe, page, memo, lastIndex>>

\* The input record posted to the worker for a run.
WorkerInput(run) ==
    [contactBuffer |-> run.contactFile.bytes,
     contactFileName |-> run.contactFile.name,
     suppressionBuffer |-> run.suppressionFile.bytes,
     suppressionFileName |-> run.suppressionFile.name,
     options |-> run.options]

\* self.postMessage(result): the reply is in flight to the main thread.
WorkerPostResult(i, done) ==
    /\ runs' = [runs EXCEPT ![i].pc = "replied",
                            ![i].frame = done.frame,
                            ![i].reply = Some(done.result)]
    /\ runLog' = IF keepLog
                 THEN Append(runLog, LogEntry(runs[i], done.frame,
                                              SettleFromMessage(done.result)))
                 ELSE runLog

\* processInWorker is suspended at await createZip(...): every call up to
\* createZip has been made, the archive is being generated.
AwaitsZip(i, done) ==
    /\ runs' = [runs EXCEPT ![i].pc = "zipping", ![i].frame = done.frame]
    /\ runLog' = runLog

\* The promise of the async handler self.onmessage rejects: nothing is posted,
\* and an unhandled rejection in the worker raises no error event on the
\* Worker object of the main thread.
WorkerHandlerRejects(i, done) ==
    /\ runs' = [runs EXCEPT ![i].pc = "crashed", ![i].frame = done.frame]
    /\ runLog' = IF keepLog
                 THEN Append(runLog, LogEntry(runs[i], done.frame, None))
                 ELSE runLog

\* self.onmessage once processInWorker has run as far as it runs without
\* a pause: to an exception, to the return of a failure (posted in the same
\* turn of the worker), or to await createZip.
WorkerHandlerEnds(i, done) ==
    IF done.thrown # None
    THEN WorkerHandlerRejects(i, done)
    ELSE IF done.result.success
    THEN AwaitsZip(i, done)
    ELSE WorkerPostResult(i, done)

\* The pipeline is a function of its input: both paths computed for one input.
PipelineOutputs(input) ==
    [worker |-> processInWorker(input),
     fallback |-> FallbackProcess(input.contactBuffer, input.contactFileName,
                                  input.suppressionBuffer,
                                  input.suppressionFileName, input.options)]

\* The inputs a caller can build from a set of files.
PipelineInputs(d) ==
    {[contactBuffer |-> c.bytes, contactFileName |-> c.name,
      suppressionBuffer |-> s.bytes, suppressionFileName |-> s.name,
      options |-> o] :
        c \in Files(d).contact, s \in Files(d).suppression, o \in Options}

\* processInWorker on the input of a run.
WorkerComputes(input) ==
    IF input \in DOMAIN memo THEN memo[input].worker
    ELSE PipelineOutputs(input).worker

\* The fallback pipeline on the input of a run.
FallbackComputes(input) ==
    IF input \in DOMAIN memo THEN memo[input].fallback
    ELSE PipelineOutputs(input).fallback

\* self.onmessage in the worker: processInWorker up to its first pause.
WorkerOnMessage(i) ==
    /\ runs[i].pc = "posted"
    /\ WorkerHandlerEnds(i, WorkerComputes(WorkerInput(runs[i])))
    /\ UNCHANGED <<workerSupported, disk, keepLog, probe, page, memo, lastIndex>>

\* The archive is generated in the worker: processInWorker returns its
\* result and self.onmessage posts it.
WorkerZipDone(i) ==
    /\ runs[i].pc = "zipping"
    /\ workerSupported
    /\ WorkerPostResult(i, WorkerComputes(WorkerInput(runs[i])))
    /\ UNCHANGED <<workerSupported, disk, keepLog, probe, page, memo, lastIndex>>

\* worker.onmessage on the main thread: terminate the worker, settle.
MainOnMessage(i) ==
    /\ runs[i].pc = "replied"
    /\ runs' = [runs EXCEPT ![i].pc = "settled",
                            ![i].promise = Some(SettleFromMessage(runs[i].reply[1]))]
    /\ UNCHANGED <<workerSupported, disk, keepLog, runLog, probe, page, memo, lastIndex>>

\* The promise of processFiles settles on the fallback path.
FallbackSettle(i, done) ==
    /\ runs' = [runs EXCEPT ![i].pc = "settled",
                            ![i].frame = done.frame,
                            ![i].promise = Some(done.promise)]
    /\ runLog' = IF keepLog
                 THEN Append(runLog, LogEntry(runs[i], done.frame, done.promise))
                 ELSE runLog

\* The fallback as far as it runs without a pause: to a throw, which
\* rejects the promise of processFiles, or to await createZip.
FallbackRunEnds(i, done) ==
    IF done.promise.status = "fulfilled"
    THEN AwaitsZip(i, done)
    ELSE FallbackSettle(i, done)

\* The lastIndex of EMAIL_REGEX on the calling thread once the fallback has
\* run to the given frame: as matchAndClean leaves it, if it was called.
FallbackLeaves(options, frame) ==
    IF frame.matchResult = None THEN lastIndex
    ELSE matchAndCleanFrom(lastIndex, frame.contactResult[1].data,
                           frame.suppressionResult[1].data,
                           [removeInvalidEmails |-> options.removeInvalidEmails]
                          ).lastIndex

\* Both reads finished and there is no Worker: the pipeline runs on the
\* calling thread up to its first pause.
FallbackRun(i) ==
    /\ runs[i].pc = "reading"
    /\ ~workerSupported
    /\ FallbackRunEnds(i, FallbackComputes(WorkerInput(runs[i])))
    /\ lastIndex' = FallbackLeaves(runs[i].options,
                                   FallbackComputes(WorkerInput(runs[i])).frame)
    /\ UNCHANGED <<workerSupported, disk, keepLog, probe, page, memo>>

\* The archive is generated on the calling thread: processFiles returns and
\* its promise is fulfilled.
FallbackZipDone(i) ==
    /\ runs[i].pc = "zipping"
    /\ ~workerSupported
    /\ FallbackSettle(i, [promise |-> Fulfilled(FallbackResult(runs[i].frame)),
                          frame |-> runs[i].frame])
    /\ UNCHANGED <<workerSupported, disk, keepLog, probe, page, memo, lastIndex>>

\* The error events a browser raises on the Worker object: a plain Event,
\* which has no message property, when the worker's script does not load; an
\* ErrorEvent with the message of the exception when the script throws.
WorkerErrorEvents ==
    {[type |-> "Event"],
     [type |-> "ErrorEvent", message |-> "Uncaught Error: boom at top level"]}

\* `${error.message}`: the message of the event as the template literal
\* writes it, a missing property being written "undefined".
ErrorMessageText(error) ==
    IF "message" \in DOMAIN error THEN error.message ELSE "undefined"

\* worker.onerror on the main thread: the worker raised an error event;
\* terminate the worker, reject with the message of the event.
WorkerOnError(i, error) ==
    /\ runs[i].pc = "posted"
    /\ runs' = [runs EXCEPT ![i].pc = "settled",
                            ![i].promise = Some(Rejected("Processing failed: "
                                                         \o ErrorMessageText(error)))]
    /\ UNCHANGED <<workerSupported, disk, keepLog, runLog, probe, page, memo, lastIndex>>

\* The caller's await returns (or throws); the run is over.
Deliver(i) ==
    /\ runs[i].pc = "settled"
    /\ runs' = SubSeq(runs, 1, i - 1) \o SubSeq(runs, i + 1, Len(runs))
    /\ UNCHANGED <<workerSupported, disk, keepLog, runLog, probe, page, memo, lastIndex>>

Next ==
    \/ Caller
    \/ \E i \in DOMAIN runs : ReadFails(i)
    \/ \E i \in DOMAIN runs : PostToWorker(i)
    \/ \E i \in DOMAIN runs : WorkerOnMessage(i)
    \/ \E i \in DOMAIN runs : WorkerZipDone(i)
    \/ \E i \in DOMAIN runs : MainOnMessage(i)
    \/ \E i \in DOMAIN runs : FallbackRun(i)
    \/ \E i \in DOMAIN runs : FallbackZipDone(i)
    \/ \E i \in DOMAIN runs : Deliver(i)

Spec == Init /\ [][Next]_vars

SpecRerun == InitRerun /\ [][Next]_vars

-----------------------------------------------------------------------------
(* processFiles with the faults of its environment: a worker that raises   *)
(* an error event, and files on which a step of the pipeline throws.       *)

InitFaults ==
    /\ workerSupported \in BOOLEAN
    /\ disk = "faults"
    /\ keepLog = FALSE
    /\ runs = <<>>
    /\ runLog = <<>>
    /\ probe = None
    /\ page = None
    /\ lastIndex = 0
    /\ memo = [input \in PipelineInputs("faults") |-> PipelineOutputs(input)]

NextFaults ==
    \/ Next
    \/ \E i \in DOMAIN runs, e \in WorkerErrorEvents : WorkerOnError(i, e)

SpecFaults == InitFaults /\ [][NextFaults]_vars

\* The steps of each run are taken when they can be, whatever the other runs
\* do: files are read, the worker runs its handler, archives are generated,
\* posted messages arrive.  A worker need not fail, and the
\* caller need not call again.
RunFairness ==
    \A i \in 1..MaxInFlight :
        /\ WF_vars(i \in DOMAIN runs /\ PostToWorker(i))
        /\ WF_vars(i \in DOMAIN runs /\ WorkerOnMessage(i))
        /\ WF_vars(i \in DOMAIN runs /\ WorkerZipDone(i))
        /\ WF_vars(i \in DOMAIN runs /\ MainOnMessage(i))
        /\ WF_vars(i \in DOMAIN runs /\ FallbackRun(i))
        /\ WF_vars(i \in DOMAIN runs /\ FallbackZipDone(i))
        /\ WF_vars(i \in DOMAIN runs /\ Deliver(i))

SpecFaultsFair == InitFaults /\ [][NextFaults]_vars /\ RunFairness

-----------------------------------------------------------------------------
(* parseFile applied on its own.                                           *)

\* Messages of the errors XLSX.read throws on files it cannot decode.
ReadErrors == {"File is password-protected", "Unsupported ZIP encryption"}

ParseProbe(buffer, read) ==
    [op |-> "parseFile", buffer |-> buffer, thrown |-> read.thrown,
     workbook |-> read.workbook, output |-> None, awaiting |-> None,
     pipeline |-> None]

InitParse ==
    /\ workerSupported = TRUE
    /\ disk = "main"
    /\ keepLog = FALSE
    /\ runs = <<>>
    /\ runLog = <<>>
    /\ page = None
    /\ lastIndex = 0
    /\ memo = <<>>
    /\ probe \in {ParseProbe(Some(b), ReadReturned(ReadDelimited(b))) : b \in ProbeBuffers}
                 \cup {ParseProbe(None, ReadReturned(w)) : w \in OtherWorkbooks}
                 \cup {ParseProbe(None, ReadThrew(m)) : m \in ReadErrors}

\* parseFile runs on the workbook read from the file.
ApplyParseFile ==
    /\ probe.output = None
    /\ probe' = [probe EXCEPT !.output =
                    Some(ParseRead([thrown |-> probe.thrown,
                                    workbook |-> probe.workbook]))]
    /\ UNCHANGED <<workerSupported, disk, keepLog, runs, runLog, page, memo, lastIndex>>

\* The message the pipeline is run on: the file as the contact list, next to
\* a suppression list that parses.
PipelineInput(buffer) ==
    [contactBuffer |-> buffer,
     contactFileName |-> "contacts.csv",
     suppressionBuffer |-> GoodSuppression,
     suppressionFileName |-> "suppression.csv",
     options |-> [generateAuditReport |-> TRUE,
                  removeInvalidEmails |-> TRUE]]

\* processInWorker as far as it runs without a pause: to an exception or to
\* the return of a failure, which are its outcome, or to await createZip,
\* where it holds its locals and has no result yet.
PipelineRunsTo(done) ==
    IF done.thrown = None /\ done.result.success
    THEN probe' = [probe EXCEPT !.awaiting = Some(done.frame)]
    ELSE probe' = [probe EXCEPT !.pipeline = Some(done)]

\* The worker's pipeline is called with the file as the contact list.
ApplyPipeline ==
    /\ probe.output # None
    /\ probe.buffer # None
    /\ probe.awaiting = None
    /\ probe.pipeline = None
    /\ PipelineRunsTo(processInWorker(PipelineInput(probe.buffer[1])))
    /\ UNCHANGED <<workerSupported, disk, keepLog, runs, runLog, page, memo, lastIndex>>

\* The archive is generated: processInWorker resumes after await createZip
\* and returns its result.
PipelineZipDone ==
    /\ probe.awaiting # None
    /\ probe.pipeline = None
    /\ probe' = [probe EXCEPT
                    !.awaiting = None,
                    !.pipeline = Some(processInWorker(PipelineInput(probe.buffer[1])))]
    /\ UNCHANGED <<workerSupported, disk, keepLog, runs, runLog, page, memo, lastIndex>>

NextParse == ApplyParseFile \/ ApplyPipeline \/ PipelineZipDone

SpecParse == InitParse /\ [][NextParse]_vars

-----------------------------------------------------------------------------
(* generateAuditReport applied on its own.                                 *)

\* Email texts of removed rows: plain, padded, empty, and with the
\* characters the serializer escapes.
AuditEmails ==
    {L_invalid, L_validMixed, <<>>, <<"a", ",", "b">>, <<"a", "\"">>,
     <<"a", "\n", "b">>}

\* Row numbers of one and of two digits.
AuditRowNumbers == {2, 10}

RemovedRowPool ==
    [originalRowNumber : AuditRowNumbers,
     email : AuditEmails,
     reason : {"suppressed", "invalid"}]

RemovedLists ==
    UNION {[1..n -> RemovedRowPool] : n \in 0..MaxRemoved}

AuditProbe(removedRows) ==
    [op |-> "generateAuditReport", input |-> removedRows, output |-> None]

InitAudit ==
    /\ workerSupported = TRUE
    /\ disk = "main"
    /\ keepLog = FALSE
    /\ runs = <<>>
    /\ runLog = <<>>
    /\ page = None
    /\ lastIndex = 0
    /\ memo = <<>>
    /\ probe \in {AuditProbe(r) : r \in RemovedLists}

ApplyGenerateAuditReport ==
    /\ probe.output = None
    /\ probe' = [probe EXCEPT !.output = Some(generateAuditReport(probe.input))]
    /\ UNCHANGED <<workerSupported, disk, keepLog, runs, runLog, page, memo, lastIndex>>

NextAudit == ApplyGenerateAuditReport

SpecAudit == InitAudit /\ [][NextAudit]_vars

-----------------------------------------------------------------------------
(* rowsToCSV applied on its own.                                           *)

\* Cell texts over the letters, the comma, the double quote, the line feed
\* and the carriage return.
CsvCells ==
    {<<>>, <<"a">>, <<",", "\"">>, <<"\n">>, <<"a", "\r">>}

\* Header lists of one and two columns, plain and with the same characters.
CsvHeaderLists ==
    {<<<<"a">>>>,
     <<<<"a">>, <<"b">>>>,
     <<<<",", "\"">>, <<"\n">>>>,
     <<<<"b">>, <<"a", "\r">>>>}

\* The row records over a header list: one cell for each header name.
CsvRowRecords(headers) ==
    [{headers[j] : j \in DOMAIN headers} -> CsvCells]

CsvProbe(headers, rows) ==
    [op |-> "rowsToCSV", headers |-> headers, rows |-> rows, output |-> None]

InitCsv ==
    /\ workerSupported = TRUE
    /\ disk = "main"
    /\ keepLog = FALSE
    /\ runs = <<>>
    /\ runLog = <<>>
    /\ page = None
    /\ lastIndex = 0
    /\ memo = <<>>
    /\ \E headers \in CsvHeaderLists, n \in 0..MaxCsvRows :
           \E rows \in [1..n -> CsvRowRecords(headers)] :
               probe = CsvProbe(headers, rows)

ApplyRowsToCSV ==
    /\ probe.output = None
    /\ probe' = [probe EXCEPT !.output = Some(rowsToCSV(probe.headers, probe.rows))]
    /\ UNCHANGED <<workerSupported, disk, keepLog, runs, runLog, page, memo, lastIndex>>

NextCsv == ApplyRowsToCSV

SpecCsv == InitCsv /\ [][NextCsv]_vars

-----------------------------------------------------------------------------
(* isValidEmail applied on its own.                                        *)

EmailAlphabet == {"a", ".", "@", " "}

\* Every text over the alphabet up to the bound, and the values that are not
\* strings.
EmailInputs == SeqsUpTo(EmailAlphabet, MaxEmailLen) \cup NonStrings

EmailProbe(input) == [op |-> "isValidEmail", input |-> input, output |-> None]

InitEmail ==
    /\ workerSupported = TRUE
    /\ disk = "main"
    /\ keepLog = FALSE
    /\ runs = <<>>
    /\ runLog = <<>>
    /\ page = None
    /\ lastIndex = 0
    /\ memo = <<>>
    /\ probe \in {EmailProbe(t) : t \in EmailInputs}

ApplyIsValidEmail ==
    /\ probe.output = None
    /\ probe' = [probe EXCEPT !.output = Some(isValidEmail(probe.input))]
    /\ UNCHANGED <<workerSupported, disk, keepLog, runs, runLog, page, memo, lastIndex>>

NextEmail == ApplyIsValidEmail

SpecEmail == InitEmail /\ [][NextEmail]_vars

-----------------------------------------------------------------------------
(* matchAndClean on its own, on one contact table and two suppression      *)
(* tables.                                                                 *)

\* Data lines of two-column suppression files: an address, the same address
\* in other letter case between spaces, another text, an empty email cell,
\* and an email cell of one space.
ListLines ==
    {Join(<<L_valid, <<"x">>>>, ","),
     Join(<<<<" ","A","@","B",".","C"," ">>, <<"y">>>>, ","),
     Join(<<L_invalidLow, <<>>>>, ","),
     Join(<<<<>>, <<"x">>>>, ","),
     Join(<<L_space, <<"x">>>>, ",")}

ListHeaderLine == Join(<<T_email, H_n>>, ",")

\* The tables parseFile gives for the suppression files.
SuppressionTables ==
    {parseFile(CsvBuffer(<<ListHeaderLine>> \o q), "suppression.csv").data :
        q \in SeqsUpTo(ListLines, MaxListRows) \ {<<>>}}

\* The tables parseFile gives for two contact files.
ContactTables ==
    {parseFile(CsvBuffer(<<T_email, L_validMixed, L_invalidLow, L_space>>),
               "contacts.csv").data,
     parseFile(CsvBuffer(<<T_email, L_invalid>>), "contacts.csv").data}

MatchProbe(contactList, first, second, options) ==
    [op |-> "matchAndClean", contactList |-> contactList,
     suppressionLists |-> <<first, second>>, options |-> options,
     output |-> None]

InitMatch ==
    /\ workerSupported = TRUE
    /\ disk = "main"
    /\ keepLog = FALSE
    /\ runs = <<>>
    /\ runLog = <<>>
    /\ page = None
    /\ lastIndex = 0
    /\ memo = <<>>
    /\ probe \in {MatchProbe(c, s, t, [removeInvalidEmails |-> o]) :
                    c \in ContactTables, s \in SuppressionTables,
                    t \in SuppressionTables, o \in BOOLEAN}

\* matchAndClean runs once with each of the two suppression tables.
ApplyMatchAndClean ==
    /\ probe.output = None
    /\ probe' = [probe EXCEPT !.output =
                    Some([n \in 1..2 |->
                            matchAndClean(probe.contactList,
                                          probe.suppressionLists[n],
                                          probe.options)])]
    /\ UNCHANGED <<workerSupported, disk, keepLog, runs, runLog, page, memo, lastIndex>>

NextMatch == ApplyMatchAndClean

SpecMatch == InitMatch /\ [][NextMatch]_vars

-----------------------------------------------------------------------------
(* The page: the Home component, its handlers and the runs it starts.      *)

\* useState initial values of Home.
InitialPage ==
    [state |-> "upload",
     contactList |-> None,
     suppressionList |-> None,
     result |-> None,
     error |-> None,
     showResetModal |-> FALSE,
     hasDownloaded |-> FALSE]

\* const [generateAuditReport] = useState(true), [removeInvalidEmails] likewise.
PageOptions == [generateAuditReport |-> TRUE, removeInvalidEmails |-> TRUE]

InitPage ==
    /\ workerSupported \in BOOLEAN
    /\ disk = "page"
    /\ keepLog = FALSE
    /\ runs = <<>>
    /\ runLog = <<>>
    /\ probe = None
    /\ page = InitialPage
    /\ lastIndex = 0
    /\ memo = <<>>

\* canProcess = contactList && suppressionList
canProcess == page.contactList # None /\ page.suppressionList # None

\* isSameFile of InputSurface: same name and same size.
isSameFile ==
    /\ page.contactList # None
    /\ page.suppressionList # None
    /\ page.contactList[1].name = page.suppressionList[1].name
    /\ Len(page.contactList[1].bytes) = Len(page.suppressionList[1].bytes)

\* isProcessingOrResults
isProcessingOrResults == page.state \in {"loading", "results"}

\* The upload zones and the process button are active in the upload state
\* only (disabled = false).
InputActive == page.state = "upload"

\* onContactListChange = setContactList: a file is chosen in the contact zone.
onContactListChange(file) ==
    /\ InputActive
    /\ page' = [page EXCEPT !.contactList = Some(file)]
    /\ UNCHANGED <<workerSupported, disk, keepLog, runs, runLog, probe, memo, lastIndex>>

\* onSuppressionListChange = setSuppressionList.
onSuppressionListChange(file) ==
    /\ InputActive
    /\ page' = [page EXCEPT !.suppressionList = Some(file)]
    /\ UNCHANGED <<workerSupported, disk, keepLog, runs, runLog, probe, memo, lastIndex>>

\* 'Clean Your List' is clicked: handleProcess up to its await.  The button
\* is disabled when !canProcess || disabled || isSameFile || isLoading.
handleProcess ==
    /\ InputActive
    /\ canProcess
    /\ ~isSameFile
    /\ Len(runs) < MaxInFlight
    /\ page' = [page EXCEPT !.state = "loading", !.error = None]
    /\ runs' = Append(runs, NewRun(page.contactList[1], page.suppressionList[1],
                                   PageOptions))
    /\ UNCHANGED <<workerSupported, disk, keepLog, runLog, probe, memo, lastIndex>>

\* handleProcess after its await: the promise of run i has settled.
handleProcessResumes(i) ==
    /\ runs[i].pc = "settled"
    /\ page' = IF runs[i].promise[1].status = "fulfilled"
               THEN [page EXCEPT !.result = Some(runs[i].promise[1].value),
                                 !.state = "results"]
               ELSE [page EXCEPT !.error = Some(runs[i].promise[1].reason),
                                 !.state = "results"]
    /\ runs' = SubSeq(runs, 1, i - 1) \o SubSeq(runs, i + 1, Len(runs))
    /\ UNCHANGED <<workerSupported, disk, keepLog, runLog, probe, memo, lastIndex>>

\* The page after handleReset.
ResetPage == InitialPage

\* handleReset as the handler of a click: 'Try Again' of the failure panel,
\* 'Continue' of the modal.
handleReset ==
    /\ \/ page.showResetModal
       \/ page.state = "results" /\ page.error # None
    /\ page' = ResetPage
    /\ UNCHANGED <<workerSupported, disk, keepLog, runs, runLog, probe, memo, lastIndex>>

\* 'Clean Another List' in the header, rendered while isProcessingOrResults,
\* under the modal too: the modal takes the pointer, not the keyboard.
handleResetClick ==
    /\ isProcessingOrResults
    /\ page' = IF page.result # None /\ ~page.hasDownloaded
               THEN [page EXCEPT !.showResetModal = TRUE]
               ELSE ResetPage
    /\ UNCHANGED <<workerSupported, disk, keepLog, runs, runLog, probe, memo, lastIndex>>

\* The three download handlers and the blob each one needs.
DownloadBlobs == {"zipBlob", "cleanedListBlob", "auditReportBlob"}

\* The page after one of handleDownload, handleDownloadCleanedList and
\* handleDownloadAuditReport: each returns at once without its blob, and
\* sets hasDownloaded with it.
Downloaded(blob) ==
    [page EXCEPT !.hasDownloaded =
                     IF page.result # None /\ page.result[1][blob] # None
                     THEN TRUE ELSE @]

\* The buttons of the results panel, rendered in the results state without
\* error and with a result, under the modal too.
handleDownload(blob) ==
    /\ page.state = "results"
    /\ page.error = None
    /\ page.result # None
    /\ page' = Downloaded(blob)
    /\ UNCHANGED <<workerSupported, disk, keepLog, runs, runLog, probe, memo, lastIndex>>

\* onDownload of the modal: handleDownload(), then setShowResetModal(false).
onDownload ==
    /\ page.showResetModal
    /\ page' = [Downloaded("zipBlob") EXCEPT !.showResetModal = FALSE]
    /\ UNCHANGED <<workerSupported, disk, keepLog, runs, runLog, probe, memo, lastIndex>>

\* onClose of the modal.
CloseResetModal ==
    /\ page.showResetModal
    /\ page' = [page EXCEPT !.showResetModal = FALSE]
    /\ UNCHANGED <<workerSupported, disk, keepLog, runs, runLog, probe, memo, lastIndex>>

NextPage ==
    \/ \E f \in Files(disk).contact : onContactListChange(f)
    \/ \E f \in Files(disk).suppression : onSuppressionListChange(f)
    \/ handleProcess
    \/ \E i \in DOMAIN runs : ReadFails(i)
    \/ \E i \in DOMAIN runs : PostToWorker(i)
    \/ \E i \in DOMAIN runs : WorkerOnMessage(i)
    \/ \E i \in DOMAIN runs : WorkerZipDone(i)
    \/ \E i \in DOMAIN runs : MainOnMessage(i)
    \/ \E i \in DOMAIN runs : FallbackRun(i)
    \/ \E i \in DOMAIN runs : FallbackZipDone(i)
    \/ \E i \in DOMAIN runs : handleProcessResumes(i)
    \/ handleReset
    \/ handleResetClick
    \/ \E blob \in DownloadBlobs : handleDownload(blob)
    \/ onDownload
    \/ CloseResetModal

SpecPage == InitPage /\ [][NextPage]_vars

-----------------------------------------------------------------------------
(* Vocabulary of the properties.                                           *)

\* The runs that ended before the pipeline had its buffers: a file could not
\* be read.
Unread == {i \in DOMAIN runs : runs[i].promise = Some(Rejected("Failed to read file"))}

\* The runs whose pipeline has run: the worker replied, or the promise settled.
Computed == {i \in DOMAIN runs \ Unread : runs[i].pc \in {"replied", "settled"}}

\* The runs in which matchAndClean ran.
Matched == {i \in Computed : runs[i].frame.matchResult # None}

ContactTable(i)     == runs[i].frame.contactResult[1].data
SuppressionTable(i) == runs[i].frame.suppressionResult[1].data
Result(i)           == runs[i].frame.matchResult[1]

\* The normalized form of an email text: trimmed and lower-cased.
NormalForm(text) == toLowerCase(trim(text))

\* The normalized emails of the non-empty cells of a table's email column.
NormalizedColumn(table) ==
    { NormalForm(table.rows[k][table.emailColumnName]) :
        k \in {j \in DOMAIN table.rows : table.rows[j][table.emailColumnName] # <<>>} }

\* The email cell of the contact row at index k (1-based) of run i.
ContactEmail(i, k) == ContactTable(i).rows[k][ContactTable(i).emailColumnName]

\* The indices (1-based) of the contact rows that run i removed.
RemovedIndices(i) ==
    { Result(i).removedRows[j].originalRowNumber - 1 :
        j \in DOMAIN Result(i).removedRows }

RECURSIVE PickRows(_, _, _)
\* The rows at the indices of idx that are >= k, in increasing index order.
PickRows(rows, idx, k) ==
    IF k > Len(rows) THEN <<>>
    ELSE (IF k \in idx THEN <<rows[k]>> ELSE <<>>) \o PickRows(rows, idx, k + 1)

\* How the promise of a computed run settles (for a reply still in flight, how
\* it will settle).
Outcome(i) ==
    IF runs[i].promise # None THEN runs[i].promise[1]
    ELSE SettleFromMessage(runs[i].reply[1])

SameBytes(i) == runs[i].contactFile.bytes = runs[i].suppressionFile.bytes

-----------------------------------------------------------------------------
(* Properties of matchAndClean.                                            *)

\* C1: no row of cleanedRows has an email whose normalized form (trim, then
\* lower case) is in the set of normalized emails of the suppression table's
\* email column.
C1_NoSuppressedEmailKept ==
    \A i \in Matched :
        \A k \in DOMAIN Result(i).cleanedRows :
            NormalForm(Result(i).cleanedRows[k][ContactTable(i).emailColumnName])
                \notin NormalizedColumn(SuppressionTable(i))

\* A run kept a row and removed a row whose email matches the suppression
\* list only after trimming and lower-casing.
C1_Witness ==
    \E i \in Matched :
        /\ Len(Result(i).cleanedRows) > 0
        /\ \E j \in DOMAIN Result(i).removedRows :
               /\ Result(i).removedRows[j].reason = "suppressed"
               /\ Result(i).removedRows[j].email
                      # NormalForm(Result(i).removedRows[j].email)

\* C2: totalRows = cleanedCount + suppressedCount + invalidCount, the two
\* sequences have the lengths the counts give, totalRows is the number of
\* contact row records, and every contact row is in exactly one partition: the
\* removed rows are at distinct indices of the contact table and the cleaned
\* rows are as many as the other indices.
C2_StatsPartition ==
    \A i \in Matched :
        LET st == Result(i).stats
        IN  /\ st.totalRows = st.cleanedCount + st.suppressedCount + st.invalidCount
            /\ Len(Result(i).cleanedRows) = st.cleanedCount
            /\ Len(Result(i).removedRows) = st.suppressedCount + st.invalidCount
            /\ st.totalRows = Len(ContactTable(i).rows)
            /\ RemovedIndices(i) \subseteq DOMAIN ContactTable(i).rows
            /\ Cardinality(RemovedIndices(i)) = Len(Result(i).removedRows)
            /\ st.suppressedCount = Cardinality({j \in DOMAIN Result(i).removedRows :
                                        Result(i).removedRows[j].reason = "suppressed"})
            /\ st.invalidCount = Cardinality({j \in DOMAIN Result(i).removedRows :
                                        Result(i).removedRows[j].reason = "invalid"})

\* A run with a kept row, a suppressed row and an invalid row.
C2_Witness ==
    \E i \in Matched :
        /\ Result(i).stats.cleanedCount > 0
        /\ Result(i).stats.suppressedCount > 0
        /\ Result(i).stats.invalidCount > 0

\* C3: a contact row whose normalized email is in the suppression set is
\* removed with reason "suppressed", whatever removeInvalidEmails and
\* isValidEmail say; reason "invalid" is given only to rows whose normalized
\* email is not in the suppression set.
C3_SuppressedBeforeInvalid ==
    \A i \in Matched :
        /\ \A k \in DOMAIN ContactTable(i).rows :
               NormalForm(ContactEmail(i, k)) \in NormalizedColumn(SuppressionTable(i))
                   => \E j \in DOMAIN Result(i).removedRows :
                          /\ Result(i).removedRows[j].originalRowNumber = k + 1
                          /\ Result(i).removedRows[j].reason = "suppressed"
        /\ \A j \in DOMAIN Result(i).removedRows :
               Result(i).removedRows[j].reason = "invalid"
                   => NormalForm(Result(i).removedRows[j].email)
                          \notin NormalizedColumn(SuppressionTable(i))

\* With removeInvalidEmails on, a row that is both suppressed and malformed
\* was removed as "suppressed".
C3_Witness ==
    \E i \in Matched :
        /\ runs[i].options.removeInvalidEmails
        /\ \E j \in DOMAIN Result(i).removedRows :
               /\ Result(i).removedRows[j].reason = "suppressed"
               /\ ~isValidEmail(Result(i).removedRows[j].email)

\* C4: a contact row is kept exactly when its normalized email is not in the
\* suppression set and (removeInvalidEmails is off or isValidEmail holds of
\* the raw email); with removeInvalidEmails off no row is "invalid" and
\* invalidCount is 0.
C4_KeptIff ==
    \A i \in Matched :
        /\ \A k \in DOMAIN ContactTable(i).rows :
               (k \notin RemovedIndices(i))
                   <=> /\ NormalForm(ContactEmail(i, k))
                              \notin NormalizedColumn(SuppressionTable(i))
                       /\ \/ ~runs[i].options.removeInvalidEmails
                          \/ isValidEmail(ContactEmail(i, k))
        /\ Result(i).cleanedRows
               = PickRows(ContactTable(i).rows,
                          DOMAIN ContactTable(i).rows \ RemovedIndices(i), 1)
        /\ ~runs[i].options.removeInvalidEmails
               => /\ Result(i).stats.invalidCount = 0
                  /\ \A j \in DOMAIN Result(i).removedRows :
                         Result(i).removedRows[j].reason # "invalid"

\* With removeInvalidEmails off, a malformed, unsuppressed email was kept.
C4_Witness ==
    \E i \in Matched :
        /\ ~runs[i].options.removeInvalidEmails
        /\ \E k \in DOMAIN Result(i).cleanedRows :
               ~isValidEmail(Result(i).cleanedRows[k][ContactTable(i).emailColumnName])

\* C5: every cleaned row is a contact row record, unchanged, and every
\* removed row carries the contact row's own email cell text and its own row
\* record, not their normalized forms.
C5_OriginalTextPreserved ==
    \A i \in Matched :
        /\ \A k \in DOMAIN Result(i).cleanedRows :
               \E m \in DOMAIN ContactTable(i).rows :
                   Result(i).cleanedRows[k] = ContactTable(i).rows[m]
        /\ \A j \in DOMAIN Result(i).removedRows :
               LET rr == Result(i).removedRows[j]
               IN  /\ rr.originalRowNumber - 1 \in DOMAIN ContactTable(i).rows
                   /\ rr.rowData = ContactTable(i).rows[rr.originalRowNumber - 1]
                   /\ rr.email = ContactEmail(i, rr.originalRowNumber - 1)

\* A removed row and a kept row whose emails both differ from their
\* normalized forms.
C5_Witness ==
    \E i \in Matched :
        /\ \E j \in DOMAIN Result(i).removedRows :
               Result(i).removedRows[j].email
                   # NormalForm(Result(i).removedRows[j].email)
        /\ \E k \in DOMAIN Result(i).cleanedRows :
               LET e == Result(i).cleanedRows[k][ContactTable(i).emailColumnName]
               IN  e # NormalForm(e)

RECURSIVE KeptLines(_, _)
\* The 1-based line numbers, from line j on, of the lines of a file that
\* parseFile turns into row records (line 1 is the header line).
KeptLines(grid, j) ==
    IF j > Len(grid) THEN <<>>
    ELSE (IF KeepsRow(grid[j]) THEN <<j>> ELSE <<>>) \o KeptLines(grid, j + 1)

\* The source line of each contact row record of run i.
ContactSourceLines(i) == KeptLines(DsvToGrid(runs[i].contactFile.bytes), 2)

\* The contact rows of run i that the decision rule removes.
RuleRemoves(i) ==
    { k \in DOMAIN ContactTable(i).rows :
        \/ NormalForm(ContactEmail(i, k)) \in NormalizedColumn(SuppressionTable(i))
        \/ runs[i].options.removeInvalidEmails /\ ~isValidEmail(ContactEmail(i, k)) }

\* C6: the originalRowNumber of every removed row is the 1-based line number
\* of that row in the contact file (header on line 1), also when blank lines
\* precede it.  The code numbers the rows after parseFile dropped the blank
\* ones, so this does not hold.
C6_RowNumberIsSourceLine ==
    \A i \in Matched :
        [j \in DOMAIN Result(i).removedRows |-> Result(i).removedRows[j].originalRowNumber]
            = PickRows(ContactSourceLines(i), RuleRemoves(i), 1)

\* C7: cleanedRows and the rows of removedRows are subsequences of the
\* contact rows in the contact table's order, and originalRowNumber is
\* strictly increasing along removedRows.
C7_OrderPreserved ==
    \A i \in Matched :
        /\ Result(i).cleanedRows
               = PickRows(ContactTable(i).rows,
                          DOMAIN ContactTable(i).rows \ RemovedIndices(i), 1)
        /\ [j \in DOMAIN Result(i).removedRows |-> Result(i).removedRows[j].rowData]
               = PickRows(ContactTable(i).rows, RemovedIndices(i), 1)
        /\ \A j, k \in DOMAIN Result(i).removedRows :
               j < k => Result(i).removedRows[j].originalRowNumber
                            < Result(i).removedRows[k].originalRowNumber

\* Two rows with different emails were removed and a row between them kept.
C7_Witness ==
    \E i \in Matched :
        /\ Len(Result(i).removedRows) = 2
        /\ Result(i).removedRows[1].originalRowNumber = 2
        /\ Result(i).removedRows[2].originalRowNumber = 4
        /\ Result(i).removedRows[1].email # Result(i).removedRows[2].email
        /\ Len(Result(i).cleanedRows) = 1

-----------------------------------------------------------------------------
(* Properties of processFiles.                                             *)

\* C8: two runs on the same contact bytes, suppression bytes and options end
\* with the same MatchResult, the same cleaned-list CSV text and the same
\* audit CSV text, and settle alike, whatever ran before them: what an
\* earlier run leaves in the modules (the lastIndex of EMAIL_REGEX) changes
\* nothing in a later one.
C8_Deterministic ==
    \A a, b \in DOMAIN runLog :
        (/\ runLog[a].contactBuffer = runLog[b].contactBuffer
         /\ runLog[a].suppressionBuffer = runLog[b].suppressionBuffer
         /\ runLog[a].options = runLog[b].options)
            => /\ runLog[a].matchResult = runLog[b].matchResult
               /\ runLog[a].cleanedCSV = runLog[b].cleanedCSV
               /\ runLog[a].auditCSV = runLog[b].auditCSV
               /\ runLog[a].promise = runLog[b].promise

\* Two successive runs on the same inputs in modules that stay loaded (the
\* fallback path), each testing the format of an email with EMAIL_REGEX and
\* keeping its row, removing another row and writing an audit report.
C8_Witness ==
    /\ ~workerSupported
    /\ Len(runLog) >= 2
    /\ runLog[1].contactBuffer = runLog[2].contactBuffer
    /\ runLog[1].suppressionBuffer = runLog[2].suppressionBuffer
    /\ runLog[1].options = runLog[2].options
    /\ runLog[2].options.removeInvalidEmails
    /\ runLog[2].matchResult # None
    /\ Len(runLog[2].matchResult[1].cleanedRows) > 0
    /\ runLog[2].auditCSV # None

\* C9: on the worker path and on the fallback path, two files with the same
\* bytes end in the same-file failure without any call of parseFile, whatever
\* their names; two files with different bytes never end in it.
C9_SameFileGuard ==
    \A i \in Computed :
        /\ SameBytes(i)
               => /\ Outcome(i) = Rejected(MSG_SAME_FILE)
                  /\ runs[i].frame.calls = <<>>
                  /\ runs[i].frame.contactResult = None
                  /\ runs[i].frame.suppressionResult = None
        /\ ~SameBytes(i) => Outcome(i) # Rejected(MSG_SAME_FILE)

\* The worker replied with the same-file failure for two files of the same
\* bytes and different names.
C9_Witness ==
    \E i \in Computed :
        /\ workerSupported
        /\ SameBytes(i)
        /\ runs[i].contactFile.name # runs[i].suppressionFile.name
        /\ Outcome(i) = Rejected(MSG_SAME_FILE)

\* C10: when the contact file does not parse, the run fails with
\* "Contact List: " followed by the parser's message and the suppression file
\* is not parsed; when the suppression file does not parse, the run fails with
\* "Suppression List: " followed by the parser's message; after either
\* failure nothing is matched, serialized or bundled.
C10_ParseFailurePrefix ==
    \A i \in Computed :
        LET f == runs[i].frame
        IN  /\ (f.contactResult # None /\ ~f.contactResult[1].success)
                   => /\ Outcome(i) = Rejected("Contact List: "
                                          \o f.contactResult[1].error.message)
                      /\ f.calls = <<"parseFile(contact)">>
                      /\ f.suppressionResult = None
                      /\ f.matchResult = None /\ f.cleanedCSV = None
                      /\ f.auditCSV = None
            /\ (f.suppressionResult # None /\ ~f.suppressionResult[1].success)
                   => /\ Outcome(i) = Rejected("Suppression List: "
                                          \o f.suppressionResult[1].error.message)
                      /\ f.calls = <<"parseFile(contact)", "parseFile(suppression)">>
                      /\ f.matchResult = None /\ f.cleanedCSV = None
                      /\ f.auditCSV = None
            /\ f.matchResult # None
                   => /\ f.contactResult[1].success
                      /\ f.suppressionResult[1].success

\* A run whose contact file parsed and whose suppression file has no email
\* column was rejected.
C10_Witness ==
    \E i \in Computed :
        /\ runs[i].frame.contactResult # None
        /\ runs[i].frame.contactResult[1].success
        /\ runs[i].frame.suppressionResult # None
        /\ ~runs[i].frame.suppressionResult[1].success
        /\ runs[i].frame.suppressionResult[1].error.type = "no_email_column"
        /\ runs[i].promise # None

-----------------------------------------------------------------------------
(* Properties of parseFile.                                                *)

\* The probes of parseFile that have run.
Parsed ==
    /\ probe # None
    /\ probe.op = "parseFile"
    /\ probe.output # None
    /\ probe.thrown = None

\* The workbook has no first sheet.
NoSheet(workbook) ==
    \/ Len(workbook.SheetNames) = 0
    \/ workbook.SheetNames[1] \notin DOMAIN workbook.Sheets

\* The grid of the first sheet.
GridOf(workbook) == workbook.Sheets[workbook.SheetNames[1]]

\* Every cell of the row is missing or consists of white space.
BlankRow(row) ==
    \A i \in DOMAIN row :
        row[i] = Hole \/ \A k \in DOMAIN row[i] : IsSpace(row[i][k])

\* The lower-cased header text names an email column, by a canonical name or
\* by containing "email".
NamesEmail(cell) ==
    /\ cell # Hole
    /\ \/ includesText(toLowerCase(cell), T_email)
       \/ includesText(toLowerCase(cell), T_e_mail)

\* The empty_file message that the precedence gives, "" when none applies.
EmptyFileMessage(workbook) ==
    IF NoSheet(workbook) THEN MSG_NO_SHEET
    ELSE IF Len(GridOf(workbook)) = 0 THEN MSG_EMPTY
    ELSE IF BlankRow(GridOf(workbook)[1]) THEN MSG_NO_HEADERS
    ELSE IF Len(GridOf(workbook)) = 1 THEN MSG_NO_DATA
    ELSE ""

\* C11: a missing sheet, a grid of zero rows, a header row of blank cells and
\* a grid with no row after the header row each give empty_file, in this
\* precedence, and nothing else gives it; no_email_column is given only to a
\* file that passed these four tests and in which no header names an email
\* column, and such a file always fails with no_email_column.  So a
\* header-only file gives empty_file also when no header names an email
\* column, and the pipeline fails for it with the parser's message.
C11_EmptyFileBeforeNoEmailColumn ==
    Parsed =>
        /\ EmptyFileMessage(probe.workbook) # ""
               => probe.output[1]
                      = ParseFailure("empty_file", EmptyFileMessage(probe.workbook))
        /\ EmptyFileMessage(probe.workbook) = ""
               => \/ probe.output[1].success
                  \/ probe.output[1].error.type # "empty_file"
        /\ (~probe.output[1].success
                /\ probe.output[1].error.type = "no_email_column")
               => /\ EmptyFileMessage(probe.workbook) = ""
                  /\ \A i \in DOMAIN GridOf(probe.workbook)[1] :
                         ~NamesEmail(GridOf(probe.workbook)[1][i])
        /\ (/\ EmptyFileMessage(probe.workbook) = ""
            /\ \A i \in DOMAIN GridOf(probe.workbook)[1] :
                   ~NamesEmail(GridOf(probe.workbook)[1][i]))
               => /\ ~probe.output[1].success
                  /\ probe.output[1].error.type = "no_email_column"
        /\ (probe.pipeline # None /\ EmptyFileMessage(probe.workbook) = MSG_NO_DATA)
               => probe.pipeline[1].result
                      = WorkerError("Contact List: " \o MSG_NO_DATA)

-----------------------------------------------------------------------------
(* Properties of the outcome of a run.                                     *)

PayloadFields ==
    {"zipBlob", "cleanedListBlob", "auditReportBlob", "stats",
     "contactListHasMultipleSheets", "suppressionListHasMultipleSheets"}

\* A stage of the run failed: the files are the same, a file did not parse,
\* or a step threw.
StageFailed(i) ==
    \/ SameBytes(i)
    \/ runs[i].frame.contactResult # None /\ ~runs[i].frame.contactResult[1].success
    \/ runs[i].frame.suppressionResult # None
           /\ ~runs[i].frame.suppressionResult[1].success
    \/ runs[i].frame.matchResult # None /\ runs[i].frame.cleanedCSV = None

\* The worker's reply is a success with the six fields of the payload or a
\* failure with a message only.
ReplyIsUnion(reply) ==
    \/ /\ reply.success
       /\ DOMAIN reply = {"success", "payload"}
       /\ DOMAIN reply.payload = PayloadFields
    \/ /\ ~reply.success
       /\ DOMAIN reply = {"success", "error"}

\* The settled promise carries the six fields of the payload or a message
\* only.
PromiseIsUnion(promise) ==
    \/ /\ promise.status = "fulfilled"
       /\ DOMAIN promise = {"status", "value"}
       /\ DOMAIN promise.value = PayloadFields
    \/ /\ promise.status = "rejected"
       /\ DOMAIN promise = {"status", "reason"}

\* C12: the outcome of a run is a success payload of six fields or one
\* failure message, never both; a run of which a stage failed is never
\* fulfilled and returns no archive, CSV or stats; and a promise that has
\* settled keeps its settlement until the run is over.
C12_OneOutcome ==
    /\ [](\A i \in DOMAIN runs :
            /\ runs[i].reply # None => ReplyIsUnion(runs[i].reply[1])
            /\ runs[i].promise # None
                   => /\ PromiseIsUnion(runs[i].promise[1])
                      /\ StageFailed(i) => runs[i].promise[1].status = "rejected"
                      /\ runs[i].promise[1].status = "fulfilled"
                             => /\ runs[i].frame.matchResult # None
                                /\ runs[i].frame.cleanedCSV # None)
    /\ [][\A i \in DOMAIN runs :
            runs[i].promise # None
                => \/ Len(runs') < Len(runs)
                   \/ runs'[i].promise = runs[i].promise]_vars

\* On the fallback path a run was rejected after matching: serializing the
\* cleaned rows threw.
C12_Witness ==
    \E i \in DOMAIN runs :
        /\ ~workerSupported
        /\ runs[i].promise # None
        /\ runs[i].promise[1].status = "rejected"
        /\ runs[i].frame.matchResult # None

\* C14: every run started through processFiles eventually settles, also when
\* a step of the pipeline throws inside the worker's message handler.  In the
\* code that handler is async and has no try block: its exception becomes an
\* unhandled rejection inside the worker, nothing is posted and no error event
\* reaches the main thread, so the promise of such a run stays pending.
\* The oldest run keeps its place in runs until its promise has settled and
\* the caller has taken the outcome, so the property is stated for it.
C14_EveryRunSettles ==
    (Len(runs) >= 1 /\ runs[1].promise = None)
        ~> (Len(runs) >= 1 /\ runs[1].promise # None)

\* The calls of processFiles whose promise has not settled.
InFlight == {i \in DOMAIN runs : runs[i].promise = None}

\* C13: under every sequence of page actions interleaved with the steps and
\* completions of the runs, at most one call of processFiles is unsettled at
\* any time.
C13_AtMostOneRunInFlight == Cardinality(InFlight) <= 1

-----------------------------------------------------------------------------
(* Properties of the outputs.                                              *)

\* The runs that end in success, and the payload of each.
Succeeded == {i \in Computed : Outcome(i).status = "fulfilled"}

Payload(i) == Outcome(i).value

ArchiveNames(i) == DOMAIN Payload(i).zipBlob.entries

\* C15: on every successful run the archive has the entry cleaned-list.csv,
\* and these three are equivalent: the archive has the entry rinse-report.csv;
\* auditReportBlob of the payload is not null; generateAuditReport is enabled
\* and at least one row was removed.
C15_ArchiveEntries ==
    \A i \in Succeeded :
        /\ "cleaned-list.csv" \in ArchiveNames(i)
        /\ ("rinse-report.csv" \in ArchiveNames(i))
               <=> (Payload(i).auditReportBlob # None)
        /\ (Payload(i).auditReportBlob # None)
               <=> (runs[i].options.generateAuditReport
                    /\ Len(Result(i).removedRows) >= 1)

\* A successful run that kept no row and wrote the report, with the option on.
C15_Witness ==
    \E i \in Succeeded :
        /\ Len(Result(i).cleanedRows) = 0
        /\ ArchiveNames(i) = {"cleaned-list.csv", "rinse-report.csv"}
        /\ runs[i].options.generateAuditReport

-----------------------------------------------------------------------------
(* Reading CSV text: the reader of RFC 4180.                               *)

\* A position of a text is outside quotes when an even number of double
\* quotes precede it.
OutsideQuotes(s, i) == Cardinality({k \in 1..(i - 1) : s[k] = "\""}) % 2 = 0

\* The j-th smallest member of a set of positions.
NthPosition(P, j) == CHOOSE p \in P : Cardinality({q \in P : q < p}) = j - 1

\* The pieces of s between the positions of P, in order.
CutAt(s, P) ==
    [j \in 1..(Cardinality(P) + 1) |->
        SubSeq(s,
               IF j = 1 THEN 1 ELSE NthPosition(P, j - 1) + 1,
               IF j = Cardinality(P) + 1 THEN Len(s) ELSE NthPosition(P, j) - 1)]

\* The characters of s at the positions of P, in order.
KeepAt(s, P) == [j \in 1..Cardinality(P) |-> s[NthPosition(P, j)]]

\* The text of a field: a field that starts with a double quote loses its
\* enclosing quotes, and each doubled quote inside it stands for one quote.
FieldText(f) ==
    IF f # <<>> /\ f[1] = "\""
    THEN LET inner == SubSeq(f, 2, Len(f) - 1)
         IN  KeepAt(inner,
                    {k \in DOMAIN inner :
                        inner[k] = "\"" => ~OutsideQuotes(inner, k + 1) })
    ELSE f

\* The fields of one record: separated by the commas outside quotes.
RecordFields(line) ==
    LET pieces == CutAt(line, {i \in DOMAIN line :
                                  line[i] = "," /\ OutsideQuotes(line, i)})
    IN  [j \in DOMAIN pieces |-> FieldText(pieces[j])]

\* The records of a CSV text, each a sequence of field texts.  Records are
\* separated by the line breaks outside quotes, LF or CRLF.
ReadCsv(s) ==
    LET breaks == {i \in DOMAIN s : s[i] = "\n" /\ OutsideQuotes(s, i)}
        pieces == CutAt(s, breaks)
        Line(j) == IF /\ j <= Cardinality(breaks)
                      /\ pieces[j] # <<>>
                      /\ pieces[j][Len(pieces[j])] = "\r"
                   THEN SubSeq(pieces[j], 1, Len(pieces[j]) - 1)
                   ELSE pieces[j]
    IN  [j \in DOMAIN pieces |-> RecordFields(Line(j))]

\* The value of a digit character.
DigitValue(c) == (CHOOSE d \in 1..10 : Digits[d] = c) - 1

RECURSIVE DecimalValue(_)
\* The number a text of decimal digits denotes.
DecimalValue(text) ==
    IF text = <<>> THEN 0
    ELSE 10 * DecimalValue(SubSeq(text, 1, Len(text) - 1))
             + DigitValue(text[Len(text)])

\* A text is a decimal numeral: digits only, no leading zero.
IsDecimal(text) ==
    /\ text # <<>>
    /\ \A k \in DOMAIN text : \E d \in 1..10 : Digits[d] = text[k]
    /\ Len(text) > 1 => text[1] # "0"

\* The label of a removal reason.
ReasonLabel(reason) ==
    IF reason = "suppressed" THEN T_Suppressed ELSE T_InvalidFormat

\* The report of the audit probe, read back as records.
AuditTable == ReadCsv(probe.output[1])

\* C16: generateAuditReport(removedRows) yields a table with the header
\* Original Row, Email, Removal Reason and exactly one data row per element of
\* removedRows, in the same order, whose fields are the decimal
\* originalRowNumber, the original email text, and the label Suppressed for
\* reason suppressed or Invalid Format for reason invalid.
C16_AuditReportTable ==
    (probe # None /\ probe.op = "generateAuditReport" /\ probe.output # None) =>
        /\ Len(AuditTable) = Len(probe.input) + 1
        /\ AuditTable[1] = <<T_OriginalRow, T_Email, T_RemovalReason>>
        /\ \A k \in DOMAIN probe.input :
               /\ Len(AuditTable[k + 1]) = 3
               /\ IsDecimal(AuditTable[k + 1][1])
               /\ DecimalValue(AuditTable[k + 1][1])
                      = probe.input[k].originalRowNumber
               /\ AuditTable[k + 1][2] = probe.input[k].email
               /\ AuditTable[k + 1][3] = ReasonLabel(probe.input[k].reason)

\* A report was made of two removed rows with different reasons, the first
\* with a number of two digits, the second with an email that has a comma.
C16_Witness ==
    /\ probe # None /\ probe.op = "generateAuditReport" /\ probe.output # None
    /\ Len(probe.input) = 2
    /\ probe.input[1].originalRowNumber >= 10
    /\ probe.input[1].reason = "invalid"
    /\ probe.input[2].reason = "suppressed"
    /\ includes(probe.input[2].email, ",")

-----------------------------------------------------------------------------
(* Properties of rowsToCSV.                                                *)

\* The table handed to rowsToCSV, as records of field texts: the header
\* list, then one record per row.
CsvSource ==
    <<probe.headers>>
        \o [k \in DOMAIN probe.rows |->
               [j \in DOMAIN probe.headers |-> probe.rows[k][probe.headers[j]]]]

\* The fields of the output as written, before their quotes are removed.
CsvWritten ==
    LET s == probe.output[1]
        lines == CutAt(s, {i \in DOMAIN s : s[i] = "\n" /\ OutsideQuotes(s, i)})
    IN  [k \in DOMAIN lines |->
            CutAt(lines[k], {i \in DOMAIN lines[k] :
                                lines[k][i] = "," /\ OutsideQuotes(lines[k], i)})]

\* A written field is quoted: enclosed in double quotes, inner quotes doubled.
IsQuoted(written, text) ==
    /\ Len(written) >= 2
    /\ written[1] = "\""
    /\ written[Len(written)] = "\""
    /\ FieldText(written) = text
    /\ Len(written) = Len(text) + 2 + Cardinality({k \in DOMAIN text : text[k] = "\""})

\* C17: reading rowsToCSV(headers, rows) back with the reader of RFC 4180
\* gives the same number of records and the same cell text in every field,
\* over cells with commas, double quotes, line feeds and carriage returns; a
\* field is written quoted, inner quotes doubled, exactly when it has a comma,
\* a double quote or a newline, and verbatim otherwise.
C17_CsvRoundTrip ==
    (probe # None /\ probe.op = "rowsToCSV" /\ probe.output # None) =>
        /\ ReadCsv(probe.output[1]) = CsvSource
        /\ Len(CsvWritten) = Len(CsvSource)
        /\ \A k \in DOMAIN CsvSource :
               /\ Len(CsvWritten[k]) = Len(CsvSource[k])
               /\ \A j \in DOMAIN CsvSource[k] :
                      IF \/ includes(CsvSource[k][j], ",")
                         \/ includes(CsvSource[k][j], "\"")
                         \/ includes(CsvSource[k][j], "\n")
                      THEN IsQuoted(CsvWritten[k][j], CsvSource[k][j])
                      ELSE CsvWritten[k][j] = CsvSource[k][j]

-----------------------------------------------------------------------------
(* Properties of the cleaned list.                                         *)

\* The pipeline ran on the parsed file as the contact list and succeeded.
Cleaned ==
    /\ Parsed
    /\ probe.pipeline # None
    /\ probe.pipeline[1].result.success

\* The text of the cells of a source row at the column positions 1..width.
SourceRecord(row, width) == [j \in 1..width |-> CellText(row, j)]

\* The source rows (by index in the grid) of the rows the pipeline kept: the
\* rows that became row records, less the removed ones.
KeptSourceRows(grid, removedRows) ==
    LET lines == KeptLines(grid, 2)
    IN  PickRows(lines,
                 {k \in DOMAIN lines :
                     \A j \in DOMAIN removedRows :
                         removedRows[j].originalRowNumber # k + 1},
                 1)

\* The table the cleaned list must hold: the header row of the source (its
\* names without surrounding white space), then the kept source rows, each
\* cell at its column position.
ExpectedCleaned(grid, removedRows) ==
    LET kept == KeptSourceRows(grid, removedRows)
    IN  <<[j \in DOMAIN grid[1] |-> trim(CellText(grid[1], j))]>>
            \o [k \in DOMAIN kept |-> SourceRecord(grid[kept[k]], Len(grid[1]))]

\* C18: rows are removed, never columns or cell content: the header line of
\* the cleaned list is the contact file's headers in original order, and for
\* every kept row and every column position the emitted field is the text of
\* the source cell at that position of that row, for every contact table the
\* parser accepts, header names not being required to be unique.
C18_ColumnsAndCellsKept ==
    Cleaned =>
        ReadCsv(probe.pipeline[1].frame.cleanedCSV[1])
            = ExpectedCleaned(GridOf(probe.workbook),
                              probe.pipeline[1].frame.matchResult[1].removedRows)

-----------------------------------------------------------------------------
(* Properties of isValidEmail.                                             *)

\* isValidEmail was applied to an input.
Validated == probe # None /\ probe.op = "isValidEmail" /\ probe.output # None

\* The positions of the "@" signs of a text.
AtSigns(t) == {k \in DOMAIN t : t[k] = "@"}

\* The text after the "@" has no white space and has a "." with at least one
\* character on each side of it.
DomainPartOk(t, at) ==
    /\ \A k \in (at + 1)..Len(t) : ~IsSpace(t[k])
    /\ \E dot \in (at + 1)..Len(t) :
           /\ t[dot] = "."
           /\ dot > at + 1
           /\ dot < Len(t)

\* The reference: the trimmed text is non-empty, has exactly one "@", at least
\* one character before it, and a good part after it.
ReferenceValid(text) ==
    /\ text \notin NonStrings
    /\ LET t == trim(text)
       IN  /\ t # <<>>
           /\ Cardinality(AtSigns(t)) = 1
           /\ \A at \in AtSigns(t) : at > 1 /\ DomainPartOk(t, at)

\* The reference with the part before the "@" free of white space as well.
ReferenceValidNoSpace(text) ==
    /\ ReferenceValid(text)
    /\ LET t == trim(text)
       IN  \A at \in AtSigns(t) : \A k \in 1..(at - 1) : ~IsSpace(t[k])

\* C19 as stated: isValidEmail(text) is true exactly when text, trimmed, is
\* non-empty, has exactly one "@", at least one character before the "@",
\* and after the "@" a part with no white space that has a "." with at least
\* one character on each side; false for empty, white-space-only and
\* non-string input.  White space before the "@" is not excluded by this
\* reference, and the code rejects it, so this does not hold.
C19_MatchesReference ==
    Validated => (probe.output[1] <=> ReferenceValid(probe.input))

\* C19, amended: isValidEmail(text) is true exactly when text is a string
\* that, trimmed, is non-empty, has exactly one "@", at least one character and
\* no white space before the "@", and after the "@" a part with no white space
\* that has a "." with at least one character on each side.
C19_MatchesReferenceNoSpace ==
    Validated => (probe.output[1] <=> ReferenceValidNoSpace(probe.input))

\* isValidEmail rejected a text with a space before the "@" that the stated
\* reference accepts.
C19_Witness ==
    /\ Validated
    /\ probe.input = <<"a", " ", "@", "a", ".", "a">>
    /\ probe.output[1] = FALSE
    /\ ReferenceValid(probe.input)

-----------------------------------------------------------------------------
(* Properties of the inference of the email column.                        *)

\* The canonical names of an email column, in lower case.
CanonicalForms ==
    {T_email, T_e_mail,
     T_email \o <<" ">> \o T_address, T_e_mail \o <<" ">> \o T_address,
     T_subscriber \o <<" ">> \o T_email, T_contact \o <<" ">> \o T_email}

\* The text of the header cell at a position of the header row, without
\* surrounding white space and in lower case.
HeaderName(row, i) == toLowerCase(trim(CellText(row, i)))

\* The positions of the header row whose name is canonical, and those whose
\* name contains "email".
CanonicalAt(row) == {i \in DOMAIN row : HeaderName(row, i) \in CanonicalForms}

ContainingAt(row) == {i \in DOMAIN row : includesText(HeaderName(row, i), T_email)}

\* The least member of a non-empty set of positions.
Leftmost(P) == CHOOSE p \in P : \A q \in P : p <= q

\* The column the header row names: the leftmost canonical header, else the
\* leftmost header that contains "email", else none (0).
InferredColumn(row) ==
    IF CanonicalAt(row) # {} THEN Leftmost(CanonicalAt(row))
    ELSE IF ContainingAt(row) # {} THEN Leftmost(ContainingAt(row))
    ELSE 0

\* C20: the email column is inferred from the header row only: it is the
\* leftmost header with a canonical name if there is one, also when a header
\* further left merely contains "email"; otherwise the leftmost header whose
\* lower-case text contains "email"; and parseFile fails with
\* no_email_column exactly when no header passes either test.  The cells
\* below the header row have no part in the choice.
C20_ColumnFromHeaderRow ==
    (Parsed /\ EmptyFileMessage(probe.workbook) = "") =>
        LET column == InferredColumn(GridOf(probe.workbook)[1])
        IN  /\ column # 0
                => /\ probe.output[1].success
                   /\ probe.output[1].data.emailColumnIndex = column
            /\ column = 0
                => /\ ~probe.output[1].success
                   /\ probe.output[1].error.type = "no_email_column"
            /\ (~probe.output[1].success
                   /\ probe.output[1].error.type = "no_email_column")
                => column = 0

-----------------------------------------------------------------------------
(* Properties of the parsed table.                                         *)

\* parseFile was applied and returned a table.
ParsedTable == Parsed /\ probe.output[1].success

\* The table parseFile returned, and the grid it was built from.
Table == probe.output[1].data

SourceGrid == GridOf(probe.workbook)

\* The lines of the grid after the header line that have a cell with text,
\* in file order.
TextLines(grid) ==
    LET P == {r \in 2..Len(grid) :
                 \E i \in DOMAIN grid[r] : CellText(grid[r], i) # <<>>}
    IN  [k \in 1..Cardinality(P) |-> NthPosition(P, k)]

\* The name of the header at a column position: the text of the header
\* cell without surrounding white space.
HeaderKey(grid, j) == trim(CellText(grid[1], j))

\* C21: parseFile omits a data row if and only if every cell of the row is
\* blank; every other data row yields exactly one row record, in file order,
\* and each record has an entry for every header, equal to the text of the
\* cell of that row in the header's column, or to the empty text when the
\* source cell is missing.
C21_RowRecords ==
    ParsedTable =>
        /\ Len(Table.rows) = Len(TextLines(SourceGrid))
        /\ \A k \in DOMAIN Table.rows :
               \A j \in DOMAIN SourceGrid[1] :
                   /\ HeaderKey(SourceGrid, j) \in DOMAIN Table.rows[k]
                   /\ Table.rows[k][HeaderKey(SourceGrid, j)]
                          = CellText(SourceGrid[TextLines(SourceGrid)[k]], j)

\* C22: every successfully parsed table has an emailColumnIndex that is a
\* position of the header list, headers[emailColumnIndex] = emailColumnName,
\* and in every row record the value stored under emailColumnName, which is
\* the value matchAndClean compares, is the text of the source cell of that
\* row in column emailColumnIndex.
C22_EmailColumnConsistent ==
    ParsedTable =>
        /\ Table.emailColumnIndex \in DOMAIN Table.headers
        /\ Table.headers[Table.emailColumnIndex] = Table.emailColumnName
        /\ \A k \in DOMAIN Table.rows :
               /\ Table.emailColumnName \in DOMAIN Table.rows[k]
               /\ Table.rows[k][Table.emailColumnName]
                      = CellText(SourceGrid[TextLines(SourceGrid)[k]],
                                 Table.emailColumnIndex)

\* parseFile was applied, whatever the read did.
Returned == probe # None /\ probe.op = "parseFile" /\ probe.output # None

\* The message of the exception raised in the call, if one was raised: by
\* XLSX.read, or by detectEmailColumn at an empty header cell that no
\* canonical header precedes, in a grid with a header and a data row.
RaisedMessage ==
    IF probe.thrown # None THEN probe.thrown
    ELSE IF /\ EmptyFileMessage(probe.workbook) = ""
            /\ \E i \in DOMAIN SourceGrid[1] :
                   /\ SourceGrid[1][i] = Hole
                   /\ \A j \in 1..(i - 1) : j \notin CanonicalAt(SourceGrid[1])
    THEN Some(MSG_TRIM_OF_UNDEFINED)
    ELSE None

\* C23: parseFile never throws: an exception raised while the buffer is
\* decoded or the table is built is returned as a failure of type parse_error
\* whose message carries the text of the exception, and every call returns
\* exactly one of a success with data or a failure with an error.
C23_NeverThrows ==
    Returned =>
        /\ \/ /\ DOMAIN probe.output[1] = {"success", "data"}
              /\ probe.output[1].success
           \/ /\ DOMAIN probe.output[1] = {"success", "error"}
              /\ ~probe.output[1].success
              /\ DOMAIN probe.output[1].error = {"type", "message"}
        /\ RaisedMessage # None
               => probe.output[1]
                      = ParseFailure("parse_error",
                                     MSG_PARSE_ERROR \o RaisedMessage[1])
        /\ RaisedMessage = None
               => (probe.output[1].success
                   \/ probe.output[1].error.type # "parse_error")

\* parseFile returned the failure of a read that threw.
C23_Witness ==
    /\ Returned
    /\ probe.thrown = Some("File is password-protected")
    /\ ~probe.output[1].success
    /\ probe.output[1].error.type = "parse_error"

-----------------------------------------------------------------------------
(* The empty string and the suppression set.                               *)

\* The contact rows (1-based) of run i whose email cell is empty or holds only
\* whitespace.
BlankEmailRows(i) ==
    {k \in DOMAIN ContactTable(i).rows : trim(ContactEmail(i, k)) = <<>>}

\* The entries of removedRows of run i that stand for contact row k.
RemovalsOf(i, k) ==
    {j \in DOMAIN Result(i).removedRows :
        Result(i).removedRows[j].originalRowNumber = k + 1}

\* C30: the suppression set never contains the empty string, and a contact row
\* whose email cell is empty or whitespace-only is never removed as
\* 'suppressed': it is removed as 'invalid' when removeInvalidEmails is on and
\* kept when it is off.
C30_BlankEmailNeverSuppressed ==
    \A i \in Matched :
        /\ <<>> \notin BuildSuppressionSet(SuppressionTable(i))
        /\ \A k \in BlankEmailRows(i) :
              IF runs[i].options.removeInvalidEmails
              THEN /\ RemovalsOf(i, k) # {}
                   /\ \A j \in RemovalsOf(i, k) :
                         Result(i).removedRows[j].reason = "invalid"
              ELSE RemovalsOf(i, k) = {}

-----------------------------------------------------------------------------
(* What matchAndClean reads of the suppression table.                      *)

MatchedTwice == probe # None /\ probe.op = "matchAndClean" /\ probe.output # None

\* The email column of a table, cell by cell.
EmailColumn(table) ==
    [k \in DOMAIN table.rows |-> table.rows[k][table.emailColumnName]]

\* C24: two suppression tables whose email columns have the same set of
\* normalized non-empty cells give the same MatchResult, for every contact
\* table and option value.  A cell is non-empty when it holds any character,
\* a space included; its normalized form can then be the empty text.
C24_OnlyTheNormalizedSet ==
    MatchedTwice =>
        (NormalizedColumn(probe.suppressionLists[1])
            = NormalizedColumn(probe.suppressionLists[2])
         => probe.output[1][1] = probe.output[1][2])

\* Two tables of the same set that differ in their other column, in row
\* order, in duplicates and in the case and padding of the emails, and a
\* contact table of which a row is removed as suppressed.
C24_Witness ==
    /\ MatchedTwice
    /\ NormalizedColumn(probe.suppressionLists[1])
          = NormalizedColumn(probe.suppressionLists[2])
    /\ probe.suppressionLists[1].rows # probe.suppressionLists[2].rows
    /\ EmailColumn(probe.suppressionLists[1]) # EmailColumn(probe.suppressionLists[2])
    /\ Len(probe.suppressionLists[1].rows) # Len(probe.suppressionLists[2].rows)
    /\ probe.output[1][1].stats.suppressedCount > 0
    /\ probe.output[1][1].stats.cleanedCount > 0
    /\ probe.output[1][1] = probe.output[1][2]

-----------------------------------------------------------------------------
(* The states of the page.                                                 *)

\* A step that starts a run: processFiles is called once more.
RunStarts == Len(runs') = Len(runs) + 1

\* A step in which handleProcess takes up the settled promise of a run.
RunCompletes == Len(runs') = Len(runs) - 1

\* A step that leaves the page as handleReset leaves it.
PageIsReset == page' = ResetPage

\* One step of the page between two different states.
StateStep ==
    /\ page'.state = "loading" => page.state = "upload" /\ RunStarts
    /\ page'.state = "results" => page.state = "loading" /\ RunCompletes
    /\ page'.state = "upload" => PageIsReset

\* C25: the state becomes 'loading' only from 'upload' when a run is started,
\* becomes 'results' only from 'loading' when a run completes, and returns to
\* 'upload' only through reset; so after a reset the page stays in 'upload'
\* until a run is started.
C25_UploadLoadingResults ==
    [][page'.state # page.state => StateStep]_vars

-----------------------------------------------------------------------------
(* The reset confirmation.                                                 *)

\* The page holds a successful result of which nothing was downloaded.
Undownloaded == page.result # None /\ ~page.hasDownloaded

\* A step of the page that empties the result.
ResultCleared == page.result # None /\ page'.result = None

\* 'Continue With Reset' of the modal.
ContinueWithReset == page.showResetModal /\ handleReset

\* The modal's download button and its close button.
ModalDismissed ==
    page.showResetModal /\ (CloseResetModal \/ onDownload)

\* C26: an undownloaded result is cleared only by 'Continue With Reset' of the
\* shown modal; a reset click with an undownloaded result only opens the modal
\* and leaves state, files, result and error as they are; closing the modal or
\* downloading from it keeps the page in 'results' with the result intact.
C26_ResetIsConfirmed ==
    [][/\ Undownloaded /\ ResultCleared => ContinueWithReset
       /\ Undownloaded /\ handleResetClick
             => page' = [page EXCEPT !.showResetModal = TRUE]
       /\ ModalDismissed
             => /\ page'.state = "results"
                /\ page'.result = page.result
                /\ page.result # None]_vars

-----------------------------------------------------------------------------
(* Result and error of the page.                                           *)

\* C28: the page never holds a result and an error at the same time, and in
\* the state 'results' it holds one of the two.
C28_ResultOrError ==
    /\ ~(page.result # None /\ page.error # None)
    /\ page.state = "results" => (page.result # None) # (page.error # None)

-----------------------------------------------------------------------------
(* Tables without rows.                                                    *)

\* The results of parseFile that run i holds.
ParseResults(i) ==
    {r[1] : r \in {runs[i].frame.contactResult, runs[i].frame.suppressionResult}
                    \ {None}}

\* C27: no successful result of parseFile has an empty rows sequence, and no
\* run fulfils with totalRows = 0.
C27_NoEmptyTable ==
    /\ \A i \in Computed : \A r \in ParseResults(i) :
          r.success => Len(r.data.rows) > 0
    /\ \A i \in Succeeded : Payload(i).stats.totalRows > 0

-----------------------------------------------------------------------------
(* The two paths of processFiles.                                          *)

\* How the promise settles on the worker path once processInWorker has run:
\* not at all when the handler threw.
WorkerSettles(done) ==
    IF done.thrown # None THEN None ELSE Some(SettleFromMessage(done.result))

\* How the promise settles on the fallback path.
FallbackSettles(done) == Some(done.promise)

\* The runs whose pipeline has run on the path the environment offers; a run
\* ended by an unreadable file or by an error event of the worker is not
\* among them.
Piped ==
    {i \in DOMAIN runs \ Unread :
        /\ runs[i].pc \in {"replied", "settled", "crashed"}
        /\ runs[i].promise \notin
              {Some(Rejected("Processing failed: " \o ErrorMessageText(e))) :
                  e \in WorkerErrorEvents}}

\* What run i came to: nothing for a worker whose handler threw.
Reached(i) ==
    IF runs[i].pc = "crashed" THEN None ELSE Some(Outcome(i))

\* What the other path comes to on the input of run i.
OtherPath(i) ==
    IF workerSupported
    THEN FallbackSettles(FallbackComputes(WorkerInput(runs[i])))
    ELSE WorkerSettles(WorkerComputes(WorkerInput(runs[i])))

\* C29: the worker path and the fallback path reach the same outcome on the
\* same buffers, names and options: the same failure message, or the same
\* stats, cleaned CSV, audit CSV or none, archive entries and multi-sheet
\* flags.
C29_PathsAgree ==
    \A i \in Piped : Reached(i) = OtherPath(i)

=============================================================================
